---------------------------- MODULE Spec2Model ----------------------------
(***************************************************************************)
(* Circuit rewrite passes of pennylane/transforms/optimization.py          *)
(* (cancel_inverses, merge_rotations, single_qubit_fusion and the shared   *)
(* adjacency scan _find_next_gate) over the gate kinds of                  *)
(* pennylane/ops/qubit/non_parametric_ops.py, and the construction,        *)
(* matrix, decomposition and controlled variant of those gate kinds.       *)
(*                                                                         *)
(* A pass runs inside the recording context of a new tape: queue() on an   *)
(* operator, and the construction of an operator, append to that new       *)
(* tape's queue.  The variable `queue` is the new tape's queue, `tape` is  *)
(* the tape object handed to the pass.                                     *)
(*                                                                         *)
(* Angles are integers in units of pi/2.                                   *)
(***************************************************************************)
EXTENDS Integers, Sequences, FiniteSets, TLC

VARIABLES
    pass,        \* the transform being run
    tape,        \* the input tape object: [operations, measurements]
    tape0,       \* history: the input tape as it was when the pass was called
    list_copy,   \* the working list; each entry is a position of tape.operations
    queue,       \* the queue of the tape being recorded (the output)
    pc,          \* "call" | "loop" | "done" | "error" (the pass raised)
    run,         \* how many times the pass has been started on this circuit
    cancelled,   \* history: pairs <<i, j>> removed together by the current run
    kept,        \* history: pairs <<i, j>> matched by name on reordered wires and not removed
    call,        \* the gate-level call being made: its function and arguments
    result,      \* what the gate-level call returned, or that it raised
    history,     \* history: what each earlier run of the pass was given and did
    trace        \* history: the device methods invoked so far, in order

vars == <<pass, tape, tape0, list_copy, queue, pc, run, cancelled, kept, call, result,
          history, trace>>

(***************************************************************************)
(* Bounds of the model.                                                    *)
(***************************************************************************)
MaxLen == 3        \* longest tape over the full gate set
MaxLenCore == 4    \* longest tape over the core gate set
MaxPasses == 3     \* how often a pass is re-run on its own output
MaxDeep == 6       \* most control wires of a MultiControlledX decomposed twice
MaxControls == 4   \* most control wires of a decomposed MultiControlledX

None == -1

(***************************************************************************)
(* Operators and wires.                                                    *)
(***************************************************************************)
Op(name, wires, parameters, control_values) ==
    [name |-> name, wires |-> wires, parameters |-> parameters,
     control_values |-> control_values]

Range(s) == {s[i] : i \in 1..Len(s)}

\* Wires.shared_wires([w1, w2]): the wires present in both.
shared_wires(w1, w2) == Range(w1) \cap Range(w2)

\* Wires.unique_wires([w1, w2]): the wires present in exactly one of the two.
unique_wires(w1, w2) == (Range(w1) \ Range(w2)) \cup (Range(w2) \ Range(w1))

\* Wires.__eq__: same labels in the same order.
wires_eq(w1, w2) == w1 = w2

Hadamard(w) == Op("Hadamard", <<w>>, <<>>, <<>>)
PauliX(w) == Op("PauliX", <<w>>, <<>>, <<>>)
CNOT(c, t) == Op("CNOT", <<c, t>>, <<>>, <<>>)
CZ(c, t) == Op("CZ", <<c, t>>, <<>>, <<>>)
SWAP(a, b) == Op("SWAP", <<a, b>>, <<>>, <<>>)
CSWAP(c, a, b) == Op("CSWAP", <<c, a, b>>, <<>>, <<>>)
Toffoli(c1, c2, t) == Op("Toffoli", <<c1, c2, t>>, <<>>, <<>>)
RX(a, w) == Op("RX", <<w>>, <<a>>, <<>>)
RY(a, w) == Op("RY", <<w>>, <<a>>, <<>>)
RZ(a, w) == Op("RZ", <<w>>, <<a>>, <<>>)

Rot(phi, theta, omega, w) == Op("Rot", <<w>>, <<phi, theta, omega>>, <<>>)
CRZ(a, c, t) == Op("CRZ", <<c, t>>, <<a>>, <<>>)

\* MultiControlledX.__init__: wires = control_wires + target; control_values
\* defaults to all ones when none are given.
MultiControlledX(control_wires, w, control_values) ==
    Op("MultiControlledX", control_wires \o <<w>>, <<>>,
       IF control_values = <<>> THEN [i \in 1..Len(control_wires) |-> "1"]
       ELSE control_values)

\* The gate kinds that declare is_self_inverse = True in the class body.
DeclaredSelfInverse == {"CSWAP", "MultiControlledX"}

\* The gate kinds whose adjoint() returns the same gate on the same wires.
OwnAdjoint ==
    {"Hadamard", "PauliX", "PauliY", "PauliZ", "CNOT", "CZ", "CY", "SWAP",
     "CSWAP", "Toffoli", "MultiControlledX"}

\* Operator.is_self_inverse: an operator equal to its own adjoint.
is_self_inverse(op) == op.name \in DeclaredSelfInverse \cup OwnAdjoint

\* Operator.is_symmetric_over_wires: the action does not change when the
\* wire arguments are reordered.
is_symmetric_over_wires(op) == op.name \in {"CZ", "SWAP"}

\* Operator.is_composable_rotation: single-angle rotations, and Rot.
is_composable_rotation(op) ==
    op.name \in {"RX", "RY", "RZ", "PhaseShift", "CRX", "CRY", "CRZ", "Rot"}

\* operation.AnyWires, the num_wires of a gate kind that takes any number of wires.
AnyWires == -1

\* The class attribute num_wires of each gate kind.
num_wires(op) ==
    CASE op.name \in {"MultiControlledX", "Barrier"} -> AnyWires
      [] op.name \in {"CNOT", "CZ", "CY", "SWAP", "ISWAP", "SISWAP", "CRZ"} -> 2
      [] op.name \in {"CSWAP", "Toffoli"} -> 3
      [] OTHER -> 1

(***************************************************************************)
(* _find_next_gate(wires, op_list): 0-based index into op_list, or None.   *)
(***************************************************************************)
RECURSIVE scan_from(_, _, _)
scan_from(wires, op_list, op_idx) ==
    IF op_idx >= Len(op_list) THEN None
    ELSE LET op == op_list[op_idx + 1] IN
         IF Cardinality(unique_wires(wires, op.wires)) = 0 THEN op_idx
         ELSE IF Cardinality(shared_wires(wires, op.wires)) = 0
              THEN scan_from(wires, op_list, op_idx + 1)
              ELSE None

\* A scan that keeps looking past an operator that shares only some wires.
RECURSIVE scan_past_blockers(_, _, _)
scan_past_blockers(wires, op_list, op_idx) ==
    IF op_idx >= Len(op_list) THEN None
    ELSE IF Cardinality(unique_wires(wires, op_list[op_idx + 1].wires)) = 0 THEN op_idx
         ELSE scan_past_blockers(wires, op_list, op_idx + 1)

find_next_gate_keep_looking(wires, op_list) == scan_past_blockers(wires, op_list, 0)

\* A scan that looks at the first operator only.
find_next_gate_first_only(wires, op_list) ==
    IF Len(op_list) > 0 /\ Cardinality(unique_wires(wires, op_list[1].wires)) = 0
    THEN 0 ELSE None

find_next_gate(wires, op_list) == scan_from(wires, op_list, 0)

(***************************************************************************)
(* The queue of the new tape.                                              *)
(***************************************************************************)
OpItem(i, op) == [type |-> "op", idx |-> i, val |-> op]
MeasItem(i, m) == [type |-> "meas", idx |-> i, val |-> m]

\* list.pop() without an index: the last element goes.
pop_last(l, k) == SubSeq(l, 1, Len(l) - 1)

\* list.pop(k), k 0-based
pop(l, k) == [i \in 1..(Len(l) - 1) |-> IF i <= k THEN l[i] ELSE l[i + 1]]

\* The operators the working list refers to, in list order.
ops_of(l, operations) == [i \in 1..Len(l) |-> operations[l[i]]]

\* Positions of the queue that hold operations.
OpSlots(q) == {i \in 1..Len(q) : q[i].type = "op"}

RECURSIVE Filter(_, _)
Filter(q, t) ==
    IF q = <<>> THEN <<>>
    ELSE IF Head(q).type = t THEN <<Head(q)>> \o Filter(Tail(q), t)
         ELSE Filter(Tail(q), t)

\* new_tape.operations / new_tape.measurements, as processed from its queue.
out_items(q) == Filter(q, "op")
out_operations(q) == LET f == Filter(q, "op") IN [i \in 1..Len(f) |-> f[i].val]
out_measurements(q) == LET f == Filter(q, "meas") IN [i \in 1..Len(f) |-> f[i].val]

(***************************************************************************)
(* Primitives of the passes.                                               *)
(***************************************************************************)
\* The operator is put at the front of the queue.
queue_op_front(q, i, op) == <<OpItem(i, op)>> \o q

\* The operator is queued twice.
queue_op_twice(q, i, op) == Append(Append(q, OpItem(i, op)), OpItem(i, op))

\* op.queue(): the operator is appended to the tape being recorded.
queue_op(q, i, op) == Append(q, OpItem(i, op))

\* Constructing an operator inside the recording context queues the new object.
construct(q, op) == Append(q, OpItem(0, op))

\* tape.append(op) on the input tape: the tape's operator sequence grows by op.
Tape_append(t, op) == [t EXCEPT !.operations = Append(@, op)]

\* A comparison that never finds the angles close to zero.
allclose_never(angles) == FALSE

\* np.allclose(combined_angles, np.zeros(len(combined_angles))) on integer angles.
allclose_zero(angles) == \A i \in 1..Len(angles) : angles[i] = 0

\* op.single_qubit_rot_angles(), as used by convert_to_rot: the (phi, theta, omega)
\* of the equivalent Rot, in units of pi/2.
convert_to_rot(op) ==
    CASE op.name = "Hadamard" -> <<2, 1, 0>>
      [] op.name = "PauliX" -> <<1, 2, -1>>
      [] op.name = "RX" -> <<1, op.parameters[1], -1>>
      [] op.name = "RY" -> <<0, op.parameters[1], 0>>
      [] op.name = "RZ" -> <<op.parameters[1], 0, 0>>
      [] OTHER -> <<0, 0, 0>>

\* fuse_rot(angles_1, angles_2): the angles of the composed rotation.  The
\* composition formula is not part of this development; every result, the
\* identity included, is allowed.
FusedAngles == { <<0, 0, 0>>, <<1, 2, 3>>, <<3, 1, 2>> }
fuse_rot(angles_1, angles_2) == FusedAngles

(***************************************************************************)
(* cancel_inverses: one iteration of the while loop.                       *)
(***************************************************************************)
\* An iteration that drops a same-name match whatever the order of its wires.
cancel_inverses_iter_any_order(lc, q, operations) ==
    LET current == lc[1]
        current_gate == operations[current]
        emit == [list_copy |-> pop(lc, 0), queue |-> queue_op(q, current, current_gate)]
    IN  IF ~is_self_inverse(current_gate) THEN emit
        ELSE LET next_gate_idx == find_next_gate(current_gate.wires, ops_of(Tail(lc), operations)) IN
             IF next_gate_idx = None THEN emit
             ELSE IF current_gate.name = operations[lc[next_gate_idx + 2]].name
                  THEN [list_copy |-> pop(pop(lc, next_gate_idx + 1), 0), queue |-> q]
                  ELSE emit

cancel_inverses_iter(lc, q, operations) ==
    LET current == lc[1]
        current_gate == operations[current]
        emit == [list_copy |-> pop(lc, 0), queue |-> queue_op(q, current, current_gate)]
    IN  IF ~is_self_inverse(current_gate) THEN emit
        ELSE LET next_gate_idx == find_next_gate(current_gate.wires, ops_of(Tail(lc), operations)) IN
             IF next_gate_idx = None THEN emit
             ELSE LET next_gate == operations[lc[next_gate_idx + 2]] IN
                  IF current_gate.name = next_gate.name
                  THEN IF wires_eq(current_gate.wires, next_gate.wires)
                       THEN [list_copy |-> pop(pop(lc, next_gate_idx + 1), 0), queue |-> q]
                       ELSE IF is_symmetric_over_wires(current_gate)
                            THEN [list_copy |-> pop(pop(lc, next_gate_idx + 1), 0), queue |-> q]
                            ELSE emit
                  ELSE emit

(***************************************************************************)
(* merge_rotations: one iteration of the while loop.  The result is the    *)
(* set of outcomes, one for each value fuse_rot may return.                *)
(***************************************************************************)
\* An iteration that merges a same-name match whatever the order of its wires.
merge_rotations_iter_any_order(lc, q, t) ==
    LET current == lc[1]
        current_gate == t.operations[current]
        emit == [list_copy |-> pop(lc, 0), queue |-> queue_op(q, current, current_gate),
                 tape |-> t]
    IN  IF ~is_composable_rotation(current_gate) THEN {emit}
        ELSE LET next_gate_idx == find_next_gate(current_gate.wires, ops_of(Tail(lc), t.operations)) IN
             IF next_gate_idx = None THEN {emit}
             ELSE LET next_gate == t.operations[lc[next_gate_idx + 2]] IN
                  IF current_gate.name = next_gate.name /\ current_gate.name # "Rot"
                  THEN LET a == current_gate.parameters[1] + next_gate.parameters[1]
                           rest == pop(pop(lc, next_gate_idx + 1), 0)
                           merged == Op(current_gate.name, current_gate.wires, <<a>>, <<>>)
                       IN  IF a # 0
                           THEN {[list_copy |-> rest, queue |-> construct(q, merged),
                                  tape |-> Tape_append(t, merged)]}
                           ELSE {[list_copy |-> rest, queue |-> q, tape |-> t]}
                  ELSE {emit}

merge_rotations_iter(lc, q, t) ==
    LET current == lc[1]
        current_gate == t.operations[current]
        emit == [list_copy |-> pop(lc, 0), queue |-> queue_op(q, current, current_gate),
                 tape |-> t]
    IN  IF ~is_composable_rotation(current_gate) THEN {emit}
        ELSE LET next_gate_idx == find_next_gate(current_gate.wires, ops_of(Tail(lc), t.operations)) IN
             IF next_gate_idx = None THEN {emit}
             ELSE LET next_gate == t.operations[lc[next_gate_idx + 2]] IN
                  IF current_gate.name = next_gate.name
                        /\ wires_eq(current_gate.wires, next_gate.wires)
                  THEN LET rest == pop(pop(lc, next_gate_idx + 1), 0)
                           results ==
                               IF current_gate.name = "Rot"
                               THEN fuse_rot(current_gate.parameters, next_gate.parameters)
                               ELSE {<<current_gate.parameters[1] + next_gate.parameters[1]>>}
                       IN  { IF ~allclose_zero(combined_angles)
                             THEN LET merged == Op(current_gate.name, current_gate.wires,
                                                   combined_angles, <<>>)
                                  IN  [list_copy |-> rest, queue |-> construct(q, merged),
                                       tape |-> Tape_append(t, merged)]
                             ELSE [list_copy |-> rest, queue |-> q, tape |-> t]
                             : combined_angles \in results }
                  ELSE {emit}

(***************************************************************************)
(* single_qubit_fusion: one iteration of the while loop, as a set of       *)
(* outcomes.  Where a matched gate has no Rot form, the conversion either  *)
(* raises, after the matched gate has left the working list, or returns    *)
(* some angles.                                                            *)
(***************************************************************************)
\* The gate kinds that define single_qubit_rot_angles, and the single-wire
\* rotations; for any other kind the conversion to Rot form has no angles to
\* return.
has_rot_angles(op) ==
    op.name \in {"Hadamard", "PauliX", "PauliY", "PauliZ", "S", "T", "SX",
                 "RX", "RY", "RZ", "PhaseShift", "Rot"}

\* The angles of a gate in Rot form: its own if it is a Rot, converted otherwise.
rot_angles(op) == IF op.name # "Rot" THEN convert_to_rot(op) ELSE op.parameters

single_qubit_fusion_iter(lc, q, t) ==
    LET current == lc[1]
        current_gate == t.operations[current]
        emit == [list_copy |-> pop(lc, 0), queue |-> queue_op(q, current, current_gate),
                 tape |-> t, raised |-> FALSE]
    IN  IF num_wires(current_gate) > 1 THEN {emit}
        ELSE LET next_gate_idx == find_next_gate(current_gate.wires, ops_of(Tail(lc), t.operations)) IN
             IF next_gate_idx = None THEN {emit}
             ELSE LET next_gate == t.operations[lc[next_gate_idx + 2]] IN
                  IF wires_eq(current_gate.wires, next_gate.wires)
                  THEN LET rest == pop(pop(lc, next_gate_idx + 1), 0)
                           fused_results ==
                             { IF ~allclose_zero(combined_angles)
                               THEN LET fused == Op("Rot", current_gate.wires, combined_angles, <<>>)
                                    IN  [list_copy |-> rest, queue |-> construct(q, fused),
                                         tape |-> Tape_append(t, fused), raised |-> FALSE]
                               ELSE [list_copy |-> rest, queue |-> q, tape |-> t,
                                     raised |-> FALSE]
                               : combined_angles \in fuse_rot(rot_angles(current_gate),
                                                              rot_angles(next_gate)) }
                       IN  IF has_rot_angles(current_gate) /\ has_rot_angles(next_gate)
                           THEN fused_results
                           ELSE fused_results \cup
                                  {[list_copy |-> pop(lc, next_gate_idx + 1), queue |-> q,
                                    tape |-> t, raised |-> TRUE]}
                  ELSE {emit}

(***************************************************************************)
(* Tapes.                                                                  *)
(***************************************************************************)
Tape(operations, measurements) ==
    [operations |-> operations, measurements |-> measurements]

SeqsUpTo(S, n) == UNION {[1..k -> S] : k \in 0..n}

Measurements == <<"expval(PauliZ(0))", "probs(wires=[1])">>

MeasLists == { <<>>, <<Measurements[1]>>, Measurements }

CancelGates ==
    { Hadamard(0), PauliX(0), CNOT(0, 1), CNOT(1, 0), SWAP(0, 1),
      Toffoli(0, 1, 2), CSWAP(0, 1, 2),
      MultiControlledX(<<0>>, 1, <<>>), MultiControlledX(<<0>>, 1, <<"0">>),
      RZ(3, 0) }

CancelCoreGates ==
    { Hadamard(0), PauliX(0), CNOT(0, 1), CNOT(1, 0), SWAP(0, 1), SWAP(1, 0) }

\* The example of the testable properties: [H(0), H(1), H(0), CNOT(0,2)].
CancelExampleTape == << Hadamard(0), Hadamard(1), Hadamard(0), CNOT(0, 2) >>

\* The circuit of the cancel_inverses docstring, with x, y, z = 1, 2, 3.
CancelDocTape ==
    << Hadamard(0), Hadamard(1), Hadamard(0), RX(1, 2), RY(2, 1), PauliX(1),
       RZ(3, 0), RX(2, 2), CNOT(0, 2), PauliX(1) >>

CancelTapes ==
    { Tape(o, Measurements) :
        o \in SeqsUpTo(CancelGates, MaxLen) \cup SeqsUpTo(CancelCoreGates, MaxLenCore)
                \cup {CancelExampleTape, CancelDocTape} }

MergeGates ==
    { RX(1, 0), RX(-1, 0), RY(2, 1), CRZ(3, 2, 0), CRZ(3, 0, 2), Rot(1, 2, 3, 0),
      CNOT(1, 2), Hadamard(2) }

\* The circuit of the merge_rotations docstring, with x, y, z = 1, 2, 3.
MergeDocTape ==
    << RX(1, 0), RX(2, 0), CNOT(1, 2), RY(2, 1), Hadamard(2), CRZ(3, 2, 0), RY(-2, 1) >>

FusionGates ==
    { Hadamard(0), RZ(1, 0), Rot(1, 2, 3, 0), PauliX(1), RZ(1, 1), CNOT(0, 1),
      MultiControlledX(<<0>>, 1, <<>>) }

\* The circuit of the single_qubit_fusion docstring.
FusionDocTape ==
    << Hadamard(0), Rot(1, 2, 3, 0), Rot(4, 5, 6, 0), RZ(1, 0), RZ(4, 0) >>

PassTapes(p) ==
    { Tape(o, m) :
        o \in CASE p = "cancel_inverses" -> SeqsUpTo(CancelCoreGates, MaxLen) \cup {CancelDocTape}
                [] p = "merge_rotations" -> SeqsUpTo(MergeGates, MaxLen) \cup {MergeDocTape}
                [] OTHER -> SeqsUpTo(FusionGates, MaxLen) \cup {FusionDocTape},
        m \in MeasLists }

(***************************************************************************)
(* The state machine of a pass.                                            *)
(***************************************************************************)
Start(p, t) ==
    /\ pass = p
    /\ tape = t
    /\ tape0 = t
    /\ list_copy = <<>>
    /\ queue = <<>>
    /\ pc = "call"
    /\ run = 1
    /\ cancelled = {}
    /\ kept = {}
    /\ call = <<>>
    /\ result = <<>>
    /\ history = <<>>
    /\ trace = <<>>

Init == \E t \in CancelTapes : Start("cancel_inverses", t)

InitPasses ==
    \E p \in {"cancel_inverses", "merge_rotations", "single_qubit_fusion"} :
        \E t \in PassTapes(p) : Start(p, t)

\* list_copy = tape.operations.copy()
Call ==
    /\ pc = "call"
    /\ list_copy' = [i \in 1..Len(tape.operations) |-> i]
    /\ pc' = "loop"
    /\ UNCHANGED <<pass, tape, tape0, queue, run, cancelled, kept, call, result, history, trace>>

\* What an iteration removed together with the head, and what it matched by
\* name on reordered wires and left in place.
Removed(lc, lc2) == {<<lc[1], x>> : x \in Range(Tail(lc)) \ Range(lc2)}

Matched(lc, lc2, operations) ==
    LET head == operations[lc[1]]
        n == find_next_gate(head.wires, ops_of(Tail(lc), operations))
    IN  IF n = None \/ Len(lc2) # Len(lc) - 1 THEN {}
        ELSE LET nxt == operations[lc[n + 2]] IN
             IF head.name = nxt.name /\ head.wires # nxt.wires
             THEN {<<lc[1], lc[n + 2]>>} ELSE {}

cancel_inverses_step ==
    /\ pc = "loop"
    /\ pass = "cancel_inverses"
    /\ Len(list_copy) > 0
    /\ LET r == cancel_inverses_iter(list_copy, queue, tape.operations) IN
         /\ list_copy' = r.list_copy
         /\ queue' = r.queue
         /\ cancelled' = cancelled \cup Removed(list_copy, r.list_copy)
         /\ kept' = kept \cup
                IF is_self_inverse(tape.operations[list_copy[1]])
                THEN Matched(list_copy, r.list_copy, tape.operations) ELSE {}
    /\ UNCHANGED <<pass, tape, tape0, pc, run, call, result, history, trace>>

merge_rotations_step ==
    /\ pc = "loop"
    /\ pass = "merge_rotations"
    /\ Len(list_copy) > 0
    /\ \E r \in merge_rotations_iter(list_copy, queue, tape) :
           /\ list_copy' = r.list_copy
           /\ queue' = r.queue
           /\ tape' = r.tape
           /\ cancelled' = cancelled \cup Removed(list_copy, r.list_copy)
    /\ UNCHANGED <<pass, tape0, pc, run, kept, call, result, history, trace>>

single_qubit_fusion_step ==
    /\ pc = "loop"
    /\ pass = "single_qubit_fusion"
    /\ Len(list_copy) > 0
    /\ \E r \in single_qubit_fusion_iter(list_copy, queue, tape) :
           /\ list_copy' = r.list_copy
           /\ queue' = r.queue
           /\ tape' = r.tape
           /\ pc' = IF r.raised THEN "error" ELSE pc
           /\ cancelled' = IF r.raised THEN cancelled
                           ELSE cancelled \cup Removed(list_copy, r.list_copy)
    /\ UNCHANGED <<pass, tape0, run, kept, call, result, history, trace>>

\* The measurements, last one first.
measurement_items_reversed(measurements) ==
    [i \in 1..Len(measurements) |->
        MeasItem(Len(measurements) + 1 - i, measurements[Len(measurements) + 1 - i])]

\* for m in tape.measurements: m.queue()
measurement_items(measurements) ==
    [i \in 1..Len(measurements) |-> MeasItem(i, measurements[i])]

\* The while loop has ended; the measurements are queued and the pass returns.
queue_measurements ==
    /\ pc = "loop"
    /\ Len(list_copy) = 0
    /\ queue' = queue \o measurement_items(tape.measurements)
    /\ pc' = "done"
    /\ UNCHANGED <<pass, tape, tape0, list_copy, run, cancelled, kept, call, result, history, trace>>

\* The pass is applied again to the tape it produced.
Rerun ==
    /\ pc = "done"
    /\ run < MaxPasses
    /\ tape' = Tape(out_operations(queue), out_measurements(queue))
    /\ tape0' = tape'
    /\ list_copy' = <<>>
    /\ queue' = <<>>
    /\ pc' = "call"
    /\ run' = run + 1
    /\ cancelled' = {}
    /\ kept' = {}
    /\ history' = Append(history, [operations |-> tape0.operations, queue |-> queue,
                                    cancelled |-> cancelled])
    /\ UNCHANGED <<pass, call, result, trace>>

Next ==
    \/ Call
    \/ cancel_inverses_step
    \/ queue_measurements
    \/ Rerun

Spec == Init /\ [][Next]_vars

NextPasses ==
    \/ Call
    \/ cancel_inverses_step
    \/ merge_rotations_step
    \/ single_qubit_fusion_step
    \/ queue_measurements
    \/ Rerun

SpecPasses == InitPasses /\ [][NextPasses]_vars

(***************************************************************************)
(* The action of the permutation gates on computational basis states.      *)
(* A basis state gives a bit to every wire; a gate's matrix sends the      *)
(* basis vector numbered by its wires' bits (first wire most significant)  *)
(* to the basis vector of the row holding the 1 of that column.            *)
(***************************************************************************)
WireLabels == {0, 1, 2}
BasisStates == [WireLabels -> {0, 1}]

RECURSIVE pow2(_)
pow2(n) == IF n = 0 THEN 1 ELSE 2 * pow2(n - 1)

\* int(control_values, 2)
RECURSIVE parse_control_values(_)
parse_control_values(cv) ==
    IF cv = <<>> THEN 0
    ELSE 2 * parse_control_values(SubSeq(cv, 1, Len(cv) - 1))
         + (IF cv[Len(cv)] = "1" THEN 1 ELSE 0)

\* The matrix attribute of a gate kind, as the permutation of basis-vector numbers.
matrix(op) ==
    CASE op.name = "PauliX" -> <<1, 0>>
      [] op.name = "CNOT" -> <<0, 1, 3, 2>>
      [] op.name = "SWAP" -> <<0, 2, 1, 3>>
      [] op.name = "CSWAP" -> <<0, 1, 2, 3, 4, 6, 5, 7>>
      [] op.name = "Toffoli" -> <<0, 1, 2, 3, 4, 5, 7, 6>>

\* MultiControlledX._matrix: block_diag(eye(padding_left), X, eye(padding_right)).
MultiControlledX_matrix(op) ==
    LET padding_left == parse_control_values(op.control_values) * 2
        padding_right == pow2(Len(op.wires)) - 2 - padding_left
    IN  [i \in 1..(padding_left + 2 + padding_right) |->
            IF i = padding_left + 1 THEN padding_left + 1
            ELSE IF i = padding_left + 2 THEN padding_left
            ELSE i - 1]

PermutationGates == {"PauliX", "CNOT", "SWAP", "CSWAP", "Toffoli", "MultiControlledX"}

\* The number of the basis vector b restricted to `wires`, first wire most significant.
local_index(wires, b) ==
    LET RECURSIVE value(_)
        value(k) == IF k = 0 THEN 0 ELSE 2 * value(k - 1) + b[wires[k]]
    IN  value(Len(wires))

\* Bit k (1-based, first wire most significant) of an n-bit number.
bit_of(number, k, n) == (number \div pow2(n - k)) % 2

apply_op(op, b) ==
    LET m == IF op.name = "MultiControlledX" THEN MultiControlledX_matrix(op) ELSE matrix(op)
        to == m[local_index(op.wires, b) + 1]
        n == Len(op.wires)
    IN  [w \in DOMAIN b |->
            IF \E k \in 1..n : op.wires[k] = w
            THEN bit_of(to, CHOOSE k \in 1..n : op.wires[k] = w, n)
            ELSE b[w]]

RECURSIVE apply_all(_, _)
apply_all(operations, b) ==
    IF operations = <<>> THEN b
    ELSE apply_all(Tail(operations), apply_op(Head(operations), b))

(***************************************************************************)
(* Vocabulary of the properties.                                           *)
(***************************************************************************)
SetEq(w1, w2) == Range(w1) = Range(w2)
Disjoint(w1, w2) == Range(w1) \cap Range(w2) = {}
Partial(w1, w2) == ~SetEq(w1, w2) /\ ~Disjoint(w1, w2)

WireArgs == { <<0>>, <<2>>, <<0, 1>>, <<1, 0>>, <<0, 1, 2>> }

\* The positions of the input tape whose operator object has been queued.
Emitted == {queue[i].idx : i \in OpSlots(queue)} \ {0}

InPair(k) == \E p \in cancelled : p[1] = k \/ p[2] = k

Between(operations, i, j, W) ==
    \A k \in (i + 1)..(j - 1) : Disjoint(operations[k].wires, W)

\* Same name, self-inverse, the same wires in the same order, only
\* disjoint-wire operators in between.
Qualifies(operations, i, j) ==
    /\ i < j
    /\ operations[i].name = operations[j].name
    /\ is_self_inverse(operations[i])
    /\ operations[i].wires = operations[j].wires
    /\ Between(operations, i, j, operations[i].wires)

\* The same, with the wires compared as sets.
QualifiesAsSets(operations, i, j) ==
    /\ i < j
    /\ operations[i].name = operations[j].name
    /\ is_self_inverse(operations[i])
    /\ SetEq(operations[i].wires, operations[j].wires)
    /\ Between(operations, i, j, operations[i].wires)

\* The queued operators are input operators, in input order.
InInputOrder ==
    LET it == out_items(queue) IN
    \A i \in 1..Len(it) :
        /\ it[i].idx \in 1..Len(tape0.operations)
        /\ it[i].val = tape0.operations[it[i].idx]
        /\ i > 1 => it[i - 1].idx < it[i].idx

CancelExamples ==
    /\ tape0.operations = CancelExampleTape
         => out_operations(queue) = <<Hadamard(1), CNOT(0, 2)>>
    /\ tape0.operations = CancelDocTape
         => out_operations(queue) =
              <<Hadamard(1), RX(1, 2), RY(2, 1), RZ(3, 0), RX(2, 2), CNOT(0, 2)>>

(***************************************************************************)
(* Properties of _find_next_gate and cancel_inverses (specification Spec). *)
(***************************************************************************)

C2_Original ==
    pc = "done" =>
    LET operations == tape0.operations
        n == Len(operations) IN
    /\ \A i \in 1..n : \A j \in 1..n :
          Qualifies(operations, i, j) => (i \notin Emitted /\ j \notin Emitted)
    /\ \A k \in 1..n :
          (~\E j \in 1..n : QualifiesAsSets(operations, k, j)
                                \/ QualifiesAsSets(operations, j, k))
             => k \in Emitted
    /\ CancelExamples

\* C2, amended: pairs are formed greedily from the front.  Both members of a
\* qualifying pair are removed unless the first one was already removed with
\* an earlier operator; every operator is either emitted or removed in one
\* pair; a removed pair is a qualifying pair, or a same-name pair of a
\* symmetric gate on reordered wires with only disjoint-wire operators in
\* between.  The two examples come out as stated.
C2_GreedyPairs ==
    pc = "done" =>
    LET operations == tape0.operations
        n == Len(operations) IN
    /\ \A i \in 1..n : \A j \in 1..n :
          (Qualifies(operations, i, j) /\ ~\E h \in 1..n : <<h, i>> \in cancelled)
             => <<i, j>> \in cancelled
    /\ \A k \in 1..n : k \in Emitted <=> ~InPair(k)
    /\ \A p \in cancelled :
          \/ Qualifies(operations, p[1], p[2])
          \/ /\ p[1] < p[2]
             /\ operations[p[1]].name = operations[p[2]].name
             /\ is_self_inverse(operations[p[1]])
             /\ is_symmetric_over_wires(operations[p[1]])
             /\ SetEq(operations[p[1]].wires, operations[p[2]].wires)
             /\ Between(operations, p[1], p[2], operations[p[1]].wires)
    /\ CancelExamples

C2_Witness ==
    /\ pc = "done"
    /\ run = 1
    /\ tape0.operations = CancelDocTape
    /\ Cardinality(cancelled) = 2

\* C3: a cancelled pair never has, between its members, an operator that
\* shares a wire with the pair without having exactly the pair's wire set;
\* [X(0), CNOT(0,1), X(0)] is emitted whole and in order.
C3_BlockedNeverCancelled ==
    /\ \A p \in cancelled : \A k \in (p[1] + 1)..(p[2] - 1) :
          ~Partial(tape0.operations[k].wires, tape0.operations[p[1]].wires)
    /\ (pc = "done" /\ tape0.operations = <<PauliX(0), CNOT(0, 1), PauliX(0)>>)
          => /\ out_operations(queue) = tape0.operations
             /\ [i \in 1..3 |-> out_items(queue)[i].idx] = <<1, 2, 3>>

C3_Witness ==
    /\ pc = "done"
    /\ run = 1
    /\ tape0.operations = <<PauliX(0), CNOT(0, 1), PauliX(0)>>
    /\ Len(out_operations(queue)) = 3

\* C4 as stated: a second pass returns its input.
C4_Original ==
    (pc = "done" /\ run >= 2) => out_operations(queue) = tape0.operations

\* C4, amended: a second pass returns a subsequence of the first pass's
\* output that is shorter by two operators for every pair it cancels, and
\* returns that output itself when it cancels nothing.
C4_SecondPass ==
    (pc = "done" /\ run >= 2) =>
        /\ InInputOrder
        /\ Len(tape0.operations) - Len(out_operations(queue)) = 2 * Cardinality(cancelled)
        /\ cancelled = {} => out_operations(queue) = tape0.operations

C4_Witness == pc = "done" /\ run = 2 /\ cancelled # {}

\* C7: the operators emitted by cancel_inverses are input operators, in the
\* order of the input.
C7_Subsequence == InInputOrder

C7_Witness ==
    /\ pc = "done"
    /\ run = 1
    /\ cancelled # {}
    /\ Len(out_items(queue)) >= 2

\* C9 as stated: a same-name match on reordered wires is dropped with the
\* head exactly when the kind is symmetric over wires; otherwise both
\* operators are in the output.
C9_Original ==
    /\ \A p \in cancelled :
          tape0.operations[p[1]].wires # tape0.operations[p[2]].wires
             => is_symmetric_over_wires(tape0.operations[p[1]])
    /\ \A p \in kept : ~is_symmetric_over_wires(tape0.operations[p[1]])
    /\ pc = "done" => \A p \in kept : p[1] \in Emitted /\ p[2] \in Emitted

\* C9, amended: ... otherwise the head is emitted and the matched operator
\* stays in the working list, where it is later emitted or cancelled with an
\* operator that follows it.
C9_ReorderedWires ==
    /\ \A p \in cancelled :
          tape0.operations[p[1]].wires # tape0.operations[p[2]].wires
             => is_symmetric_over_wires(tape0.operations[p[1]])
    /\ \A p \in kept :
          /\ ~is_symmetric_over_wires(tape0.operations[p[1]])
          /\ p[1] \in Emitted
          /\ \/ p[2] \in Range(list_copy)
             \/ p[2] \in Emitted
             \/ \E c \in cancelled : c[1] = p[2]

\* A run that kept a reordered CNOT pair and dropped a reordered SWAP pair.
C9_Witness ==
    /\ pc = "done"
    /\ kept # {}
    /\ \E c \in cancelled :
          tape0.operations[c[1]].wires # tape0.operations[c[2]].wires

\* C10: on a tape of permutation gates, the output of cancel_inverses acts
\* on every computational basis state as the input does.
C10_SameAction ==
    (pc = "done" /\ \A i \in 1..Len(tape0.operations) :
                        tape0.operations[i].name \in PermutationGates)
       => \A b \in BasisStates :
             apply_all(out_operations(queue), b) = apply_all(tape0.operations, b)

(***************************************************************************)
(* Properties shared by the three passes (specification SpecPasses).       *)
(***************************************************************************)

\* C5: when a pass returns, the tape it built holds at most as many
\* operations as the tape it was given.
C5_CountNeverGrows ==
    pc = "done" => Len(out_operations(queue)) <= Len(tape0.operations)

\* merge_rotations returned a tape that is shorter and holds a merged gate.
C5_Witness ==
    /\ pc = "done"
    /\ pass = "merge_rotations"
    /\ \E i \in OpSlots(queue) : queue[i].idx = 0
    /\ Len(out_operations(queue)) < Len(tape0.operations)

\* C6: when a pass returns, the queue of the new tape is the surviving
\* operations followed by the input tape's measurements, each of them once,
\* unchanged and in their order; no measurement is queued before the loop
\* has ended.
C6_MeasurementsLast ==
    /\ pc # "done" => \A i \in 1..Len(queue) : queue[i].type = "op"
    /\ pc = "done" =>
          LET n == Len(queue) - Len(tape0.measurements) IN
          /\ n >= 0
          /\ \A i \in 1..n : queue[i].type = "op"
          /\ \A i \in 1..Len(tape0.measurements) :
                queue[n + i] = MeasItem(i, tape0.measurements[i])

\* single_qubit_fusion fused a pair and queued two measurements after it.
C6_Witness ==
    /\ pc = "done"
    /\ pass = "single_qubit_fusion"
    /\ cancelled # {}
    /\ Len(out_operations(queue)) >= 1
    /\ Len(tape0.measurements) = 2
    /\ queue[Len(queue)].type = "meas"

\* C8: the tape handed to a pass holds, at every moment of the pass and
\* after it, the operations and measurements it held at the call.
C8_InputUntouched == tape = tape0

(***************************************************************************)
(* Properties of merge_rotations (specification SpecPasses).               *)
(***************************************************************************)
\* A state in which merge_rotations is about to run an iteration of its loop.
MergeIteration == pass = "merge_rotations" /\ pc = "loop" /\ Len(list_copy) > 0

MergeHead == tape.operations[list_copy[1]]

MergeNextIdx == find_next_gate(MergeHead.wires, ops_of(Tail(list_copy), tape.operations))

MergeNext == tape.operations[list_copy[MergeNextIdx + 2]]

\* The head is a composable rotation and the next operator on its wire set
\* has the same name and the same wires in the same order.
MergeMatch ==
    /\ is_composable_rotation(MergeHead)
    /\ MergeNextIdx # None
    /\ MergeHead.name = MergeNext.name
    /\ MergeHead.wires = MergeNext.wires

\* The working list without its head and without the matched operator.
WithoutPair ==
    SubSeq(list_copy, 2, MergeNextIdx + 1)
        \o SubSeq(list_copy, MergeNextIdx + 3, Len(list_copy))

AngleSum == MergeHead.parameters[1] + MergeNext.parameters[1]

HeadEmitted ==
    /\ queue' = Append(queue, OpItem(list_copy[1], MergeHead))
    /\ list_copy' = Tail(list_copy)

MergeExamples ==
    (pc = "done" /\ pass = "merge_rotations") =>
        /\ tape0.operations = <<RX(1, 0), RX(-1, 0)>> => out_operations(queue) = <<>>
        /\ tape0.operations = MergeDocTape
             => out_operations(queue) =
                  <<RX(3, 0), CNOT(1, 2), Hadamard(2), CRZ(3, 2, 0)>>

\* C12: when merge_rotations merges two single-angle rotations whose angles
\* sum to zero, both leave the working list and nothing is appended to the
\* output: [RX(a, 0), RX(-a, 0)] gives the empty operation list, and in the
\* docstring circuit RY(y) and RY(-y) on wire 1 both vanish across the
\* Hadamard on wire 2 and the CRZ on wires [2, 0].
C12_ZeroSumVanishes ==
    /\ []MergeExamples
    /\ [][(MergeIteration /\ MergeMatch /\ MergeHead.name # "Rot" /\ AngleSum = 0)
            => (queue' = queue /\ list_copy' = WithoutPair)]_vars

\* The docstring circuit has been merged: its two RY are a removed pair.
C12_Witness ==
    /\ pc = "done"
    /\ pass = "merge_rotations"
    /\ tape0.operations = MergeDocTape
    /\ <<4, 7>> \in cancelled
    /\ \A i \in OpSlots(queue) : queue[i].val.name # "RY"

(***************************************************************************)
(* Properties of single_qubit_fusion (specification SpecPasses).           *)
(***************************************************************************)
FusionIteration == pass = "single_qubit_fusion" /\ pc = "loop" /\ Len(list_copy) > 0

FusionHead == tape.operations[list_copy[1]]

\* C13: in every iteration of single_qubit_fusion whose head acts on more
\* than one wire, the test that guards the adjacency search and the Rot
\* conversion (num_wires > 1) sends the head straight to the output: the
\* head is emitted unchanged, only the head leaves the working list, and
\* the pass goes on.  This is asked of every multi-wire kind, MultiControlledX
\* (num_wires = AnyWires) included.
C13_MultiWireNeverSearched ==
    [][(FusionIteration /\ Len(FusionHead.wires) > 1) =>
          /\ num_wires(FusionHead) > 1
          /\ queue' = Append(queue, OpItem(list_copy[1], FusionHead))
          /\ list_copy' = Tail(list_copy)
          /\ pc' = pc]_vars

(***************************************************************************)
(* Construction of a MultiControlledX.                                     *)
(***************************************************************************)
\* A Python value passed as control_values: its type and, as a sequence,
\* its characters (str), its number (int) or its elements (list).
PyNone == [type |-> "NoneType", val |-> <<>>]
PyStr(chars) == [type |-> "str", val |-> chars]
PyInt(k) == [type |-> "int", val |-> <<k>>]
PyList(elems) == [type |-> "list", val |-> elems]

\* bool(v)
truthy(v) ==
    CASE v.type = "NoneType" -> FALSE
      [] v.type = "int" -> v.val[1] # 0
      [] OTHER -> Len(v.val) > 0

\* Wires.__add__: the wires of both, first operand first, without duplicates.
RECURSIVE Wires_add(_, _)
Wires_add(w1, w2) ==
    IF w2 = <<>> THEN w1
    ELSE Wires_add(IF Head(w2) \in Range(w1) THEN w1 ELSE Append(w1, Head(w2)), Tail(w2))

Raised(error) == [raised |-> TRUE, error |-> error]

\* MultiControlledX._parse_control_values, up to the conversion: the error
\* it raises, or "" when the string goes on to int(control_values, 2).
control_values_error(control_wires, control_values) ==
    IF control_values.type = "str"
    THEN IF Len(control_values.val) # Len(control_wires)
         THEN "Length of control bit string must equal number of control wires."
         ELSE IF \E i \in 1..Len(control_values.val) : control_values.val[i] \notin {"0", "1"}
              THEN "String of control values can contain only '0' or '1'."
              ELSE IF control_values.val = <<>>
                   THEN "invalid literal for int() with base 2"
                   ELSE ""
    ELSE "Alternative control values must be passed as a binary string."

\* A constructor that does not compare the work wires with the other wires.
MultiControlledX_init_unchecked(control_wires, wires, control_values, work_wires) ==
    LET all_wires == Wires_add(control_wires, wires)
        given == IF ~truthy(control_values)
                 THEN PyStr([i \in 1..Len(control_wires) |-> "1"])
                 ELSE control_values
        err == control_values_error(control_wires, given)
    IN  IF Len(wires) # 1 THEN Raised("MultiControlledX accepts a single target wire.")
        ELSE IF err # "" THEN Raised(err)
        ELSE LET control_int == parse_control_values(given.val) IN
             [raised |-> FALSE,
              op |-> Op("MultiControlledX", all_wires, <<>>, given.val),
              control_wires |-> control_wires,
              work_wires |-> work_wires,
              padding_left |-> control_int * 2,
              padding_right |-> pow2(Len(all_wires)) - 2 - control_int * 2]

\* MultiControlledX.__init__: the constructed operator with its control
\* wires, work wires and the two padding sizes of its matrix, or the error.
MultiControlledX_init(control_wires, wires, control_values, work_wires) ==
    LET all_wires == Wires_add(control_wires, wires)
        given == IF ~truthy(control_values)
                 THEN PyStr([i \in 1..Len(control_wires) |-> "1"])
                 ELSE control_values
        err == control_values_error(control_wires, given)
    IN  IF Len(wires) # 1 THEN Raised("MultiControlledX accepts a single target wire.")
        ELSE IF shared_wires(wires, work_wires) # {} \/ shared_wires(control_wires, work_wires) # {}
        THEN Raised("The work wires must be different from the control and target wires")
        ELSE IF err # "" THEN Raised(err)
        ELSE LET control_int == parse_control_values(given.val) IN
             [raised |-> FALSE,
              op |-> Op("MultiControlledX", all_wires, <<>>, given.val),
              control_wires |-> control_wires,
              work_wires |-> work_wires,
              padding_left |-> control_int * 2,
              padding_right |-> pow2(Len(all_wires)) - 2 - control_int * 2]

\* np.eye(N) raises for a negative N.
eye_raises(N) == N < 0

\* MultiControlledX.matrix of a constructed gate g: the permutation, or the
\* error of building an identity block of negative size.
MultiControlledX_get_matrix(g) ==
    IF eye_raises(g.padding_left) \/ eye_raises(g.padding_right)
    THEN Raised("negative dimensions are not allowed")
    ELSE [raised |-> FALSE, matrix |-> MultiControlledX_matrix(g.op)]

(***************************************************************************)
(* Decompositions and controlled variants.                                 *)
(***************************************************************************)
Reverse(s) == [i \in 1..Len(s) |-> s[Len(s) + 1 - i]]

\* [PauliX(control_wires[i]) for i, val in enumerate(control_values) if val == "0"]
RECURSIVE flips_from(_, _, _)
flips_from(control_wires, control_values, i) ==
    IF i > Len(control_values) THEN <<>>
    ELSE (IF control_values[i] = "0" THEN <<PauliX(control_wires[i])>> ELSE <<>>)
            \o flips_from(control_wires, control_values, i + 1)

flips(control_wires, control_values) == flips_from(control_wires, control_values, 1)

\* The construction without its second half: the target is computed, the
\* work wires are not brought back.
decomposition_with_many_workers_half(control_wires, target_wire, work_wires) ==
    LET ww == SubSeq(work_wires, 1, Len(control_wires) - 2)
        wr == Reverse(ww)
        cr == Reverse(control_wires)
        down(i) == Toffoli(cr[i + 1], wr[i + 1], IF i = 0 THEN target_wire ELSE wr[i])
    IN  [k \in 1..Len(ww) |-> down(k - 1)]
            \o <<Toffoli(control_wires[1], control_wires[2], ww[1])>>
            \o [k \in 1..Len(ww) |-> down(Len(ww) - k)]

\* MultiControlledX._decomposition_with_many_workers; i below is the
\* 0-based loop index of the code.
decomposition_with_many_workers(control_wires, target_wire, work_wires) ==
    LET num_needed == Len(control_wires) - 2
        ww == SubSeq(work_wires, 1, num_needed)
        wr == Reverse(ww)
        cr == Reverse(control_wires)
        W == Len(ww)
        down(i) == Toffoli(cr[i + 1], wr[i + 1], IF i = 0 THEN target_wire ELSE wr[i])
        inner(i) == Toffoli(cr[i + 2], wr[i + 2], wr[i + 1])
        mid == Toffoli(control_wires[1], control_wires[2], ww[1])
    IN  [k \in 1..W |-> down(k - 1)]
            \o <<mid>>
            \o [k \in 1..W |-> down(W - k)]
            \o [k \in 1..(W - 1) |-> inner(k - 1)]
            \o <<mid>>
            \o [k \in 1..(W - 1) |-> inner(W - 1 - k)]

\* The first sub-gate is given no work wires.
decomposition_with_one_worker_bare(control_wires, target_wire, work_wire) ==
    LET tot_wires == Len(control_wires) + 2
        partition == (tot_wires + 1) \div 2
        first_part == SubSeq(control_wires, 1, partition)
        second_part == SubSeq(control_wires, partition + 1, Len(control_wires))
        g1 == MultiControlledX_init(first_part, <<work_wire>>, PyNone, <<>>)
        g2 == MultiControlledX_init(Wires_add(second_part, <<work_wire>>), <<target_wire>>,
                                    PyNone, first_part)
    IN  IF g1.raised THEN g1
        ELSE IF g2.raised THEN g2
        ELSE [raised |-> FALSE, ops |-> <<g1.op, g2.op, g1.op, g2.op>>,
              gates |-> <<g1, g2, g1, g2>>]

\* MultiControlledX._decomposition_with_one_worker: the four sub-gates, each
\* built by the constructor (ops: the operators; gates: the same with their
\* work wires); or the error of a constructor.
decomposition_with_one_worker(control_wires, target_wire, work_wire) ==
    LET tot_wires == Len(control_wires) + 2
        partition == (tot_wires + 1) \div 2
        first_part == SubSeq(control_wires, 1, partition)
        second_part == SubSeq(control_wires, partition + 1, Len(control_wires))
        g1 == MultiControlledX_init(first_part, <<work_wire>>, PyNone,
                                    Wires_add(second_part, <<target_wire>>))
        g2 == MultiControlledX_init(Wires_add(second_part, <<work_wire>>), <<target_wire>>,
                                    PyNone, first_part)
    IN  IF g1.raised THEN g1
        ELSE IF g2.raised THEN g2
        ELSE [raised |-> FALSE, ops |-> <<g1.op, g2.op, g1.op, g2.op>>,
              gates |-> <<g1, g2, g1, g2>>]

\* A count that asks for one work wire more.
num_work_wires_needed_plus_one(control_wires) == Len(control_wires) - 1

\* num_work_wires_needed = len(control_wires) - 2
num_work_wires_needed(control_wires) == Len(control_wires) - 2

\* MultiControlledX.compute_decomposition(wires, work_wires, control_values),
\* the target being the last of wires.
compute_decomposition(wires, work_wires, control_values) ==
    LET target_wire == wires[Len(wires)]
        control_wires == SubSeq(wires, 1, Len(wires) - 1)
        fl == flips(control_wires, control_values)
        decomp ==
            IF Len(control_wires) = 1
            THEN [raised |-> FALSE, ops |-> <<CNOT(control_wires[1], target_wire)>>,
                  gates |-> <<>>]
            ELSE IF Len(control_wires) = 2
            THEN [raised |-> FALSE,
                  ops |-> <<Toffoli(control_wires[1], control_wires[2], target_wire)>>,
                  gates |-> <<>>]
            ELSE IF Len(work_wires) >= num_work_wires_needed(control_wires)
            THEN [raised |-> FALSE,
                  ops |-> decomposition_with_many_workers(control_wires, target_wire, work_wires),
                  gates |-> <<>>]
            ELSE decomposition_with_one_worker(control_wires, target_wire, work_wires[1])
    IN  IF Len(control_wires) > 2 /\ Len(work_wires) = 0
        THEN Raised("At least one work wire is required to decompose operation: MultiControlledX")
        ELSE IF decomp.raised THEN decomp
        ELSE [raised |-> FALSE, ops |-> fl \o decomp.ops \o fl, gates |-> decomp.gates]

\* Two CNOTs only.
SWAP_compute_decomposition_two(wires) ==
    << CNOT(wires[1], wires[2]), CNOT(wires[2], wires[1]) >>

\* SWAP.compute_decomposition(wires)
SWAP_compute_decomposition(wires) ==
    << CNOT(wires[1], wires[2]), CNOT(wires[2], wires[1]), CNOT(wires[1], wires[2]) >>

\* CSWAP.compute_decomposition(wires)
CSWAP_compute_decomposition(wires) ==
    << Toffoli(wires[1], wires[3], wires[2]), Toffoli(wires[1], wires[2], wires[3]),
       Toffoli(wires[1], wires[3], wires[2]) >>

\* The gate kind that _controlled of a gate kind constructs.
controlled_kind(name) ==
    CASE name = "PauliX" -> "CNOT"
      [] name = "PauliY" -> "CY"
      [] name = "PauliZ" -> "CZ"
      [] name = "CNOT" -> "Toffoli"
      [] name = "SWAP" -> "CSWAP"

\* op._controlled(wire): the operator the body constructs (or the error of
\* constructing it on a wrong number of wires), and the value the method
\* returns.  The body is an expression statement; the method has no return.
controlled(op, wire) ==
    LET new_wires == Wires_add(<<wire>>, op.wires)
        new_op == Op(controlled_kind(op.name), new_wires, <<>>, <<>>)
    IN  IF Len(new_wires) # num_wires(new_op)
        THEN Raised("wrong number of wires")
        ELSE [raised |-> FALSE, constructed |-> new_op, returned |-> PyNone]

(***************************************************************************)
(* Gate-level calls: a call is made with its arguments and returns or      *)
(* raises.                                                                 *)
(***************************************************************************)
\* The values given as control_values to the constructor.
ControlValueArgs ==
    { PyNone, PyStr(<<>>), PyStr(<<"0">>), PyStr(<<"1">>), PyStr(<<"1", "0">>),
      PyStr(<<"1", "1">>), PyStr(<<"2">>), PyStr(<<"1", "x">>), PyStr(<<"1", "1", "1">>),
      PyInt(0), PyInt(10), PyList(<<>>), PyList(<<1, 0>>) }

ControlWireArgs == { <<0>>, <<0, 1>>, <<1, 0>> }
TargetArgs == { <<2>>, <<0>>, <<2, 3>> }
WorkWireArgs == { <<>>, <<3>>, <<3, 0>>, <<2>>, <<4, 3>> }

\* Wires 0..n-1 control, wire n is the target, wires n+1..n+w are work wires.
ControlsOf(n) == [i \in 1..n |-> i - 1]
WorkOf(n, w) == [i \in 1..w |-> n + i]
BitStrings(n) == [1..n -> {"0", "1"}]

SinglePaulis == { Op(k, <<w>>, <<>>, <<>>) : k \in {"PauliX", "PauliY", "PauliZ"}, w \in 0..2 }
ControlledSources ==
    SinglePaulis \cup { CNOT(0, 1), CNOT(1, 0), CNOT(2, 1), SWAP(0, 1), SWAP(1, 0), SWAP(2, 0) }

PairArgs == { w \in [1..2 -> 0..3] : w[1] # w[2] }
TripleArgs == { w \in [1..3 -> 0..3] : Cardinality(Range(w)) = 3 }

GateStart(c) ==
    /\ pass = "gate"
    /\ tape = Tape(<<>>, <<>>)
    /\ tape0 = Tape(<<>>, <<>>)
    /\ list_copy = <<>>
    /\ queue = <<>>
    /\ pc = "call"
    /\ run = 1
    /\ cancelled = {}
    /\ kept = {}
    /\ call = c
    /\ result = <<>>
    /\ history = <<>>
    /\ trace = <<>>

InitGates ==
    \/ \E f \in {"MultiControlledX", "MultiControlledX.matrix"} :
       \E cw \in ControlWireArgs : \E t \in TargetArgs :
       \E cv \in ControlValueArgs : \E ww \in WorkWireArgs :
          GateStart([fn |-> f, control_wires |-> cw, wires |-> t,
                     control_values |-> cv, work_wires |-> ww])
    \/ \E n \in 1..MaxControls : \E w \in 0..(MaxControls - 2) : \E cv \in BitStrings(n) :
          GateStart([fn |-> "MultiControlledX.compute_decomposition",
                     wires |-> Append(ControlsOf(n), n), work_wires |-> WorkOf(n, w),
                     control_values |-> cv])
    \/ \E n \in 4..MaxDeep : \E w \in 1..(n - 3) :
          GateStart([fn |-> "MultiControlledX.compute_decomposition",
                     wires |-> Append(ControlsOf(n), n), work_wires |-> WorkOf(n, w),
                     control_values |-> [i \in 1..n |-> "1"]])
    \/ \E op \in ControlledSources : \E c \in 0..3 :
          GateStart([fn |-> "_controlled", op |-> op, wire |-> c])
    \/ \E w \in PairArgs : GateStart([fn |-> "SWAP.compute_decomposition", wires |-> w])
    \/ \E w \in TripleArgs : GateStart([fn |-> "CSWAP.compute_decomposition", wires |-> w])

Returns(r) ==
    /\ result' = r
    /\ pc' = "done"
    /\ UNCHANGED <<pass, tape, tape0, list_copy, run, cancelled, kept, call, history, trace>>

\* MultiControlledX(control_wires=..., wires=..., control_values=..., work_wires=...)
MultiControlledX_call ==
    /\ pc = "call"
    /\ call.fn = "MultiControlledX"
    /\ LET g == MultiControlledX_init(call.control_wires, call.wires, call.control_values,
                                      call.work_wires)
       IN  /\ Returns(g)
           /\ queue' = IF g.raised THEN queue ELSE construct(queue, g.op)

\* MultiControlledX(...).matrix
matrix_call ==
    /\ pc = "call"
    /\ call.fn = "MultiControlledX.matrix"
    /\ LET g == MultiControlledX_init(call.control_wires, call.wires, call.control_values,
                                      call.work_wires)
       IN  /\ Returns([gate |-> g,
                       value |-> IF g.raised THEN g ELSE MultiControlledX_get_matrix(g)])
           /\ queue' = IF g.raised THEN queue ELSE construct(queue, g.op)

\* MultiControlledX.compute_decomposition(wires, work_wires, control_values)
compute_decomposition_call ==
    /\ pc = "call"
    /\ call.fn = "MultiControlledX.compute_decomposition"
    /\ LET r == compute_decomposition(call.wires, call.work_wires, call.control_values)
       IN  /\ Returns(r)
           /\ queue' = IF r.raised THEN queue
                       ELSE queue \o [i \in 1..Len(r.ops) |-> OpItem(0, r.ops[i])]

\* op._controlled(wire)
controlled_call ==
    /\ pc = "call"
    /\ call.fn = "_controlled"
    /\ LET r == controlled(call.op, call.wire)
       IN  /\ Returns(r)
           /\ queue' = IF r.raised THEN queue ELSE construct(queue, r.constructed)

\* SWAP.compute_decomposition(wires)
SWAP_decomposition_call ==
    /\ pc = "call"
    /\ call.fn = "SWAP.compute_decomposition"
    /\ LET ops == SWAP_compute_decomposition(call.wires)
       IN  /\ Returns([raised |-> FALSE, ops |-> ops])
           /\ queue' = queue \o [i \in 1..Len(ops) |-> OpItem(0, ops[i])]

\* CSWAP.compute_decomposition(wires)
CSWAP_decomposition_call ==
    /\ pc = "call"
    /\ call.fn = "CSWAP.compute_decomposition"
    /\ LET ops == CSWAP_compute_decomposition(call.wires)
       IN  /\ Returns([raised |-> FALSE, ops |-> ops])
           /\ queue' = queue \o [i \in 1..Len(ops) |-> OpItem(0, ops[i])]

NextGates ==
    \/ MultiControlledX_call
    \/ matrix_call
    \/ compute_decomposition_call
    \/ controlled_call
    \/ SWAP_decomposition_call
    \/ CSWAP_decomposition_call

SpecGates == InitGates /\ [][NextGates]_vars

(***************************************************************************)
(* Properties of the gate-level calls (specification SpecGates).           *)
(***************************************************************************)
Returned(f) == pc = "done" /\ call.fn = f

\* C14: a MultiControlledX constructor call whose work wires share a wire
\* with the control wires or with the target wire ends in an error, and no
\* operator is constructed or recorded.
C14_WorkWireConflict ==
    (/\ Returned("MultiControlledX")
     /\ Range(call.work_wires) \cap (Range(call.control_wires) \cup Range(call.wires)) # {})
        => (result.raised /\ queue = <<>>)

\* A call that is well-formed but for a work wire that is also a control
\* wire, and was refused for that reason.
C14_Witness ==
    /\ Returned("MultiControlledX")
    /\ call.control_wires = <<0>>
    /\ call.wires = <<2>>
    /\ call.control_values = PyStr(<<"1">>)
    /\ call.work_wires = <<3, 0>>
    /\ result.raised
    /\ result.error = "The work wires must be different from the control and target wires"

\* C15: a MultiControlledX constructor call ends in an error whenever the
\* control_values supplied (anything but None) is not a string, or is a
\* string whose length differs from the number of control wires, or holds
\* a symbol other than '0' and '1'; the empty string with one or more
\* control wires is such a value.
C15_BadControlValuesRefused ==
    (/\ Returned("MultiControlledX")
     /\ call.control_values # PyNone
     /\ \/ call.control_values.type # "str"
        \/ Len(call.control_values.val) # Len(call.control_wires)
        \/ \E i \in 1..Len(call.control_values.val) :
              call.control_values.val[i] \notin {"0", "1"})
        => result.raised

\* C16: the matrix of every constructed MultiControlledX is built from
\* identity blocks of non-negative sizes 2*c and 2^n - 2 - 2*c around the X
\* block (c = int(control_values, 2), n the number of wires), is a
\* permutation of the 2^n basis vectors, and exchanges the two vectors that
\* differ in the target bit exactly when the control bits, first control
\* wire most significant, spell control_values; every other vector is fixed.
C16_MatrixShape ==
    (Returned("MultiControlledX.matrix") /\ ~result.gate.raised) =>
        LET g == result.gate
            n == Len(g.op.wires)
            c == parse_control_values(g.op.control_values)
            ControlsMatch(j) ==
                \A k \in 1..(n - 1) :
                    bit_of(j, k, n) = (IF g.op.control_values[k] = "1" THEN 1 ELSE 0)
        IN  /\ g.padding_left = 2 * c
            /\ g.padding_right = pow2(n) - 2 - 2 * c
            /\ g.padding_left >= 0
            /\ g.padding_right >= 0
            /\ ~result.value.raised
            /\ Len(result.value.matrix) = pow2(n)
            /\ \A j \in 0..(pow2(n) - 1) :
                  result.value.matrix[j + 1] =
                      IF ControlsMatch(j)
                      THEN (IF j % 2 = 0 THEN j + 1 ELSE j - 1)
                      ELSE j

\* The arguments of a compute_decomposition call, and its result between
\* the PauliX flips of the zero-valued controls.
DecControls == SubSeq(call.wires, 1, Len(call.wires) - 1)
DecTarget == call.wires[Len(call.wires)]
DecN == Len(call.wires) - 1
DecW == Len(call.work_wires)
DecZeros == {i \in 1..DecN : call.control_values[i] = "0"}
DecCore ==
    SubSeq(result.ops, Cardinality(DecZeros) + 1, Len(result.ops) - Cardinality(DecZeros))

WorkWiresUsed(ops) == {x \in Range(call.work_wires) : \E i \in 1..Len(ops) : x \in Range(ops[i].wires)}

\* C17: MultiControlledX.compute_decomposition chooses its method from the
\* number n of control wires and w of work wires.  Between the PauliX flips
\* of the controls whose value is '0': n = 1 gives one CNOT, n = 2 one
\* Toffoli; for n > 2, w = 0 is an error, w >= n - 2 gives Toffolis only,
\* touching no work wire beyond the first n - 2, and 1 <= w < n - 2 gives
\* four MultiControlledX gates touching no work wire but the first.
C17_MethodChoice ==
    Returned("MultiControlledX.compute_decomposition") =>
        /\ result.raised <=> (DecN > 2 /\ DecW = 0)
        /\ ~result.raised =>
             /\ Len(result.ops) >= 2 * Cardinality(DecZeros) + 1
             /\ \A i \in 1..Len(result.ops) :
                   (i <= Cardinality(DecZeros) \/ i > Len(result.ops) - Cardinality(DecZeros))
                      => /\ result.ops[i].name = "PauliX"
                         /\ \E k \in DecZeros : result.ops[i].wires = <<DecControls[k]>>
             /\ DecN = 1 => DecCore = <<CNOT(DecControls[1], DecTarget)>>
             /\ DecN = 2 => DecCore = <<Toffoli(DecControls[1], DecControls[2], DecTarget)>>
             /\ (DecN > 2 /\ DecW >= DecN - 2) =>
                   /\ \A i \in 1..Len(DecCore) : DecCore[i].name = "Toffoli"
                   /\ WorkWiresUsed(DecCore) = Range(SubSeq(call.work_wires, 1, DecN - 2))
             /\ (DecN > 2 /\ DecW >= 1 /\ DecW < DecN - 2) =>
                   /\ Len(DecCore) = 4
                   /\ \A i \in 1..4 : DecCore[i].name = "MultiControlledX"
                   /\ WorkWiresUsed(DecCore) = {call.work_wires[1]}

\* A decomposition with a single work wire where more would be needed for
\* the Toffoli construction, on control values with a zero.
C17_Witness ==
    /\ Returned("MultiControlledX.compute_decomposition")
    /\ DecN >= 4
    /\ DecW = 1
    /\ DecZeros # {}
    /\ ~result.raised
    /\ Len(result.ops) = 4 + 2 * Cardinality(DecZeros)

DecWires == Range(call.wires) \cup Range(call.work_wires)

\* C18: for every number of controls (one or more), every control_values
\* string and either method, applying the returned operators in list order
\* to any computational basis state of the control, target and work wires
\* flips the target bit if and only if the control bits spell
\* control_values, and leaves every control wire and every work wire as it
\* was.
C18_DecompositionAction ==
    (Returned("MultiControlledX.compute_decomposition") /\ ~result.raised) =>
        \A b \in [DecWires -> {0, 1}] :
            LET after == apply_all(result.ops, b)
                fires == \A k \in 1..DecN :
                            b[DecControls[k]] = (IF call.control_values[k] = "1" THEN 1 ELSE 0)
            IN  /\ after[DecTarget] = (IF fires THEN 1 - b[DecTarget] ELSE b[DecTarget])
                /\ \A x \in DecWires \ {DecTarget} : after[x] = b[x]

\* A Toffoli construction on four controls that uses two work wires.
C18_Witness ==
    /\ Returned("MultiControlledX.compute_decomposition")
    /\ DecN = 4
    /\ DecW = 2
    /\ ~result.raised
    /\ \A i \in 1..Len(DecCore) : DecCore[i].name = "Toffoli"
    /\ WorkWiresUsed(DecCore) = Range(call.work_wires)
    /\ Cardinality(DecZeros) = 2

\* C19: _controlled of a PauliX, PauliY, PauliZ, CNOT or SWAP, asked for
\* with a control wire c that is not a wire of the gate, returns a CNOT, CY,
\* CZ, Toffoli or CSWAP operator whose wires are c followed by the gate's
\* wires in their order.
C19_ControlledReturned ==
    (Returned("_controlled") /\ call.wire \notin Range(call.op.wires)) =>
        /\ ~result.raised
        /\ result.returned.type = "Operator"
        /\ result.returned.val =
              Op(controlled_kind(call.op.name), <<call.wire>> \o call.op.wires, <<>>, <<>>)

\* Bit values with the bits of wires x and y exchanged.
Exchanged(b, x, y) == [v \in DOMAIN b |-> IF v = x THEN b[y] ELSE IF v = y THEN b[x] ELSE b[v]]

BasisStates4 == [0..3 -> {0, 1}]

\* C20: the decompositions of the permutation gates act as the gate on
\* every computational basis state.  SWAP.compute_decomposition(a, b) is
\* CNOT(a,b), CNOT(b,a), CNOT(a,b) and exchanges the bits of a and b;
\* CSWAP.compute_decomposition(c, a, b) is Toffoli(c,b,a), Toffoli(c,a,b),
\* Toffoli(c,b,a) and exchanges the bits of a and b exactly when the bit of
\* c is 1, leaving c as it was.  Both agree with the gate's own matrix.
C20_PermutationDecompositions ==
    /\ Returned("SWAP.compute_decomposition") =>
          LET a == call.wires[1]
              b == call.wires[2]
          IN  /\ result.ops = <<CNOT(a, b), CNOT(b, a), CNOT(a, b)>>
              /\ \A s \in BasisStates4 :
                    /\ apply_all(result.ops, s) = Exchanged(s, a, b)
                    /\ apply_all(result.ops, s) = apply_op(SWAP(a, b), s)
    /\ Returned("CSWAP.compute_decomposition") =>
          LET c == call.wires[1]
              a == call.wires[2]
              b == call.wires[3]
          IN  /\ result.ops = <<Toffoli(c, b, a), Toffoli(c, a, b), Toffoli(c, b, a)>>
              /\ \A s \in BasisStates4 :
                    /\ apply_all(result.ops, s) =
                          (IF s[c] = 1 THEN Exchanged(s, a, b) ELSE s)
                    /\ apply_all(result.ops, s) = apply_op(CSWAP(c, a, b), s)

\* A CSWAP decomposition on wires that are not in ascending order.
C20_Witness ==
    /\ Returned("CSWAP.compute_decomposition")
    /\ call.wires = <<2, 0, 1>>
    /\ Len(result.ops) = 3
    /\ \E s \in BasisStates4 : apply_all(result.ops, s) # s

(***************************************************************************)
(* Repeated fusion of a run of single-wire gates.                          *)
(***************************************************************************)
\* A non-empty list of single-wire gates that all act on the same wire and
\* all have a Rot form.
SameWireRun(ops) ==
    /\ ops # <<>>
    /\ \A i \in 1..Len(ops) :
           /\ num_wires(ops[i]) = 1
           /\ Len(ops[i].wires) = 1
           /\ ops[i].wires = ops[1].wires
           /\ has_rot_angles(ops[i])

\* How many fused results of a run were close to the identity and dropped:
\* the pairs removed together that left no constructed operator in the queue.
Identities(q, removed) ==
    Cardinality(removed) - Cardinality({i \in OpSlots(q) : q[i].idx = 0})

\* C26: a finished pass of single_qubit_fusion over a tape of k single-wire
\* gates on one wire, none of whose fused results was the identity, paired
\* the gates from the front (1 with 2, 3 with 4, ...) and emitted
\* ceil(k / 2) operators, again single-wire gates on that wire; for k >= 2
\* that is fewer than k; and the third pass over the docstring's five gates
\* on wire 0 ends with exactly one Rot on wire 0.
C26_FusionHalves ==
    (/\ pass = "single_qubit_fusion"
     /\ pc = "done"
     /\ SameWireRun(tape0.operations)
     /\ Identities(queue, cancelled) = 0)
    => LET k == Len(tape0.operations)
           out == out_operations(queue)
       IN  /\ cancelled = {<<2 * i - 1, 2 * i>> : i \in 1..(k \div 2)}
           /\ Len(out) = (k + 1) \div 2
           /\ k >= 2 => Len(out) < k
           /\ SameWireRun(out)
           /\ out[1].wires = tape0.operations[1].wires
           /\ (/\ run = 3
               /\ history[1].operations = FusionDocTape
               /\ \A r \in 1..Len(history) :
                      Identities(history[r].queue, history[r].cancelled) = 0)
              => /\ Len(out) = 1
                 /\ out[1].name = "Rot"
                 /\ out[1].wires = <<0>>

C26_Witness ==
    /\ pass = "single_qubit_fusion"
    /\ pc = "done"
    /\ run = 3
    /\ Len(history) = 2
    /\ history[1].operations = FusionDocTape
    /\ Len(history[2].operations) = 3
    /\ \A r \in 1..2 : Identities(history[r].queue, history[r].cancelled) = 0
    /\ Len(tape0.operations) = 2
    /\ Identities(queue, cancelled) = 0
    /\ Len(out_operations(queue)) = 1
    /\ out_operations(queue)[1].name = "Rot"

(***************************************************************************)
(* Termination of the passes.                                              *)
(***************************************************************************)
\* An iteration of the traversal loop of any pass is about to run.
Iteration == pc = "loop" /\ Len(list_copy) > 0

\* The iteration removed the head from the working list, and at most one
\* further element, and the loop goes on.
IterationRemovesHead ==
    /\ pc' = "loop"
    /\ Len(list_copy') \in {Len(list_copy) - 1, Len(list_copy) - 2}
    /\ list_copy[1] \notin Range(list_copy')
    /\ Range(list_copy') \subseteq Range(list_copy)

\* Every input operation is in exactly one of: still in the working list,
\* emitted (once), the first of one removed pair, the second of one removed pair.
Accounted ==
    pc \in {"loop", "done"} =>
        LET n == Len(tape0.operations)
            heads == {i \in OpSlots(queue) : queue[i].idx > 0}
            emitted == {queue[i].idx : i \in heads}
            firsts == {p[1] : p \in cancelled}
            seconds == {p[2] : p \in cancelled}
            waiting == Range(list_copy)
        IN  /\ emitted \cup firsts \cup seconds \cup waiting = 1..n
            /\ Cardinality(emitted) = Cardinality(heads)
            /\ Cardinality(firsts) = Cardinality(cancelled)
            /\ Cardinality(seconds) = Cardinality(cancelled)
            /\ Cardinality(waiting) = Len(list_copy)
            /\ Cardinality(emitted) + 2 * Cardinality(cancelled) + Len(list_copy) = n
            \* one iteration per emitted head and per removed pair
            /\ Cardinality(heads) + Cardinality(cancelled) <= n

\* C27: in each of the three passes every iteration of the traversal loop
\* removes the head from the working list and at most one further element,
\* so there are at most as many iterations as input operations, and every
\* input operation is emitted exactly once or consumed by exactly one
\* cancellation, merge or fusion.
C27_EveryIterationRemovesHead ==
    /\ []Accounted
    /\ [][Iteration => IterationRemovesHead]_vars

(***************************************************************************)
(* Decomposing the sub-gates of the one-work-wire decomposition again.     *)
(***************************************************************************)
\* The call took the one-work-wire decomposition: n >= 4 controls and
\* between 1 and n - 3 work wires.
OneWorkerUsed ==
    /\ Returned("MultiControlledX.compute_decomposition")
    /\ DecN >= 4
    /\ DecW >= 1
    /\ DecW <= DecN - 3

\* MultiControlledX.decomposition() of a constructed gate: the static method
\* on the gate's own wires, work wires and control values.
SubDecomposition(g) == compute_decomposition(g.op.wires, g.work_wires, g.op.control_values)

\* C28: when the one-work-wire decomposition of a MultiControlledX with n
\* controls is used (n >= 4, 1 to n - 3 work wires), each of its four
\* MultiControlledX sub-gates is constructed, has fewer than n control
\* wires and at least (its controls - 2) work wires, and decomposing it
\* again returns Toffoli gates only, so no MultiControlledX is left after
\* the second level.
C28_SubGatesSmaller ==
    OneWorkerUsed =>
        /\ ~result.raised
        /\ Len(result.gates) = 4
        /\ \A i \in 1..4 :
              LET g == result.gates[i] IN
              /\ ~g.raised
              /\ g.op = DecCore[i]
              /\ g.op.name = "MultiControlledX"
              /\ Len(g.control_wires) < DecN
              /\ Len(g.work_wires) >= Len(g.control_wires) - 2
              /\ ~SubDecomposition(g).raised
              /\ SubDecomposition(g).gates = <<>>
              /\ SubDecomposition(g).ops # <<>>
              /\ \A j \in 1..Len(SubDecomposition(g).ops) :
                     SubDecomposition(g).ops[j].name = "Toffoli"

\* Six controls and three work wires, one fewer than the Toffoli
\* construction needs: the first sub-gate has four controls and three work
\* wires, the second has three controls.
C28_Witness ==
    /\ OneWorkerUsed
    /\ DecN = 6
    /\ DecW = 3
    /\ Len(result.gates) = 4
    /\ Len(result.gates[1].control_wires) = 4
    /\ Len(result.gates[1].work_wires) = 3
    /\ Len(result.gates[2].control_wires) = 3
    /\ Len(SubDecomposition(result.gates[1]).ops) > 1

(***************************************************************************)
(* The wires of a constructed MultiControlledX.                            *)
(***************************************************************************)
\* C29: every successfully constructed MultiControlledX has exactly one
\* target wire, which is not among its control wires; its wires are the
\* control wires followed by the target, so it has one wire more than it
\* has control wires; and no work wire is among its wires.
C29_OneTargetOutsideControls ==
    (Returned("MultiControlledX") /\ ~result.raised) =>
        /\ Len(call.wires) = 1
        /\ call.wires[1] \notin Range(result.control_wires)
        /\ result.op.wires = result.control_wires \o call.wires
        /\ Len(result.op.wires) = Len(result.control_wires) + 1
        /\ Range(result.work_wires) \cap Range(result.op.wires) = {}

(***************************************************************************)
(* Device.execute (openqml/device.py).                                     *)
(* The device is a subclass instance with its two maps; the trace records  *)
(* every device method execute invokes, with the arguments of apply and    *)
(* expval.  The value of an expectation is kept symbolic: the arguments    *)
(* expval was called with.                                                 *)
(***************************************************************************)
MaxExpectations == 2    \* longest list of expectations

\* An operation or expectation object: its name, wires and parameters.
DevOp(name, wires, parameters) == [name |-> name, wires |-> wires, parameters |-> parameters]

\* A device whose _operator_map and _expectation_map share no name.
Devices == { [operations |-> {"RX", "CNOT"}, expectations |-> {"PauliZ", "Identity"}] }

\* "RX" is an operation of the device, "PauliZ" an expectation, "Hadamard" neither.
QueueItems == { DevOp("RX", <<0>>, <<1>>), DevOp("PauliZ", <<0>>, <<>>),
                DevOp("Hadamard", <<0>>, <<>>) }
ExpectationItems ==
    { DevOp(n, <<w>>, <<>>) : n \in {"PauliZ", "RX", "Hadamard"}, w \in 0..1 }

Event(m, name, wires, par) == [m |-> m, name |-> name, wires |-> wires, par |-> par]
Hook(m) == Event(m, "", <<>>, <<>>)

\* How many events of the trace are invocations of method m.
RECURSIVE Invocations(_, _)
Invocations(tr, m) ==
    IF tr = <<>> THEN 0
    ELSE (IF Head(tr).m = m THEN 1 ELSE 0) + Invocations(Tail(tr), m)

\* A device that claims to support every name.
supported_anything(self, name) == TRUE

\* Device.supported(name)
supported(self, name) == name \in (self.operations \cup self.expectations)

\* Device.check_validity(queue, expectations): the DeviceError for the first
\* unsupported operation, else for the first unsupported expectation, else
\* nothing.
check_validity(self, q, expectations) ==
    LET bad_ops == {i \in 1..Len(q) : ~supported(self, q[i].name)}
        bad_exp == {i \in 1..Len(expectations) : ~supported(self, expectations[i].name)}
        first(S) == CHOOSE i \in S : \A j \in S : i <= j
    IN  IF bad_ops # {}
        THEN Raised(<<"DeviceError", "Gate not supported on device", q[first(bad_ops)].name>>)
        ELSE IF bad_exp # {}
        THEN Raised(<<"DeviceError", "Expectation not supported on device",
                      expectations[first(bad_exp)].name>>)
        ELSE [raised |-> FALSE]

\* The value the subclass's expval returns for these arguments.
expval_value(name, wires, par) == <<"expval", name, wires, par>>

DeviceStart(c) ==
    /\ pass = "execute"
    /\ tape = Tape(<<>>, <<>>)
    /\ tape0 = Tape(<<>>, <<>>)
    /\ list_copy = <<>>
    /\ queue = <<>>
    /\ pc = "call"
    /\ run = 1
    /\ cancelled = {}
    /\ kept = {}
    /\ call = c
    /\ result = <<>>
    /\ history = <<>>
    /\ trace = <<>>

InitDevice ==
    \E d \in Devices :
    \E q \in SeqsUpTo(QueueItems, MaxLen) :
    \E e \in SeqsUpTo(ExpectationItems, MaxExpectations) :
        DeviceStart([fn |-> "Device.execute", self |-> d, queue |-> q, expectation |-> e])

DeviceUnchanged == UNCHANGED <<pass, tape, tape0, list_copy, queue, run, cancelled, kept,
                               call, history>>

\* self.check_validity(queue, expectation)
execute_check_validity ==
    /\ pc = "call"
    /\ pass = "execute"
    /\ trace' = Append(trace, Hook("check_validity"))
    /\ LET r == check_validity(call.self, call.queue, call.expectation) IN
         /\ pc' = IF r.raised THEN "error" ELSE "pre_apply"
         /\ result' = IF r.raised THEN r ELSE result
    /\ DeviceUnchanged

\* with self.execution_context(): self.pre_apply()
execute_pre_apply ==
    /\ pc = "pre_apply"
    /\ trace' = trace \o <<Hook("execution_context.__enter__"), Hook("pre_apply")>>
    /\ pc' = "apply"
    /\ UNCHANGED result
    /\ DeviceUnchanged

\* for operation in queue: self.apply(operation.name, operation.wires, operation.parameters)
execute_apply ==
    /\ pc = "apply"
    /\ Invocations(trace, "apply") < Len(call.queue)
    /\ LET operation == call.queue[Invocations(trace, "apply") + 1] IN
         trace' = Append(trace, Event("apply", operation.name, operation.wires,
                                      operation.parameters))
    /\ UNCHANGED <<pc, result>>
    /\ DeviceUnchanged

\* self.post_apply()
execute_post_apply ==
    /\ pc = "apply"
    /\ Invocations(trace, "apply") = Len(call.queue)
    /\ trace' = Append(trace, Hook("post_apply"))
    /\ pc' = "pre_expectations"
    /\ UNCHANGED result
    /\ DeviceUnchanged

\* self.pre_expectations()
execute_pre_expectations ==
    /\ pc = "pre_expectations"
    /\ trace' = Append(trace, Hook("pre_expectations"))
    /\ pc' = "expval"
    /\ UNCHANGED result
    /\ DeviceUnchanged

\* expectations = [self.expval(e.name, e.wires, e.parameters) for e in expectation]
execute_expval ==
    /\ pc = "expval"
    /\ Invocations(trace, "expval") < Len(call.expectation)
    /\ LET e == call.expectation[Invocations(trace, "expval") + 1] IN
         /\ trace' = Append(trace, Event("expval", e.name, e.wires, e.parameters))
         /\ result' = Append(result, expval_value(e.name, e.wires, e.parameters))
    /\ UNCHANGED pc
    /\ DeviceUnchanged

\* self.post_expectations(); return np.array(expectations), leaving the context
execute_post_expectations ==
    /\ pc = "expval"
    /\ Invocations(trace, "expval") = Len(call.expectation)
    /\ trace' = trace \o <<Hook("post_expectations"), Hook("execution_context.__exit__")>>
    /\ pc' = "done"
    /\ UNCHANGED result
    /\ DeviceUnchanged

NextDevice ==
    \/ execute_check_validity
    \/ execute_pre_apply
    \/ execute_apply
    \/ execute_post_apply
    \/ execute_pre_expectations
    \/ execute_expval
    \/ execute_post_expectations

SpecDevice == InitDevice /\ [][NextDevice]_vars

(***************************************************************************)
(* Properties of Device.execute.                                           *)
(***************************************************************************)
Executing == pass = "execute"

\* Some queued operation or expectation has a name that is in neither map.
Unsupported ==
    \/ \E i \in 1..Len(call.queue) :
           call.queue[i].name \notin (call.self.operations \cup call.self.expectations)
    \/ \E i \in 1..Len(call.expectation) :
           call.expectation[i].name \notin (call.self.operations \cup call.self.expectations)

\* The methods a whole execution invokes, in order.
FullTrace ==
    <<Hook("check_validity"), Hook("execution_context.__enter__"), Hook("pre_apply")>>
    \o [i \in 1..Len(call.queue) |->
           Event("apply", call.queue[i].name, call.queue[i].wires, call.queue[i].parameters)]
    \o <<Hook("post_apply"), Hook("pre_expectations")>>
    \o [i \in 1..Len(call.expectation) |->
           Event("expval", call.expectation[i].name, call.expectation[i].wires,
                 call.expectation[i].parameters)]
    \o <<Hook("post_expectations"), Hook("execution_context.__exit__")>>

IsPrefix(s, t) == Len(s) <= Len(t) /\ s = SubSeq(t, 1, Len(s))

\* C25: Device.execute runs check_validity first; if a name is unsupported
\* it raises DeviceError and no other method is invoked; otherwise the
\* methods run in the fixed order pre_apply (once), apply once per queued
\* operation in queue order with that operation's name, wires and
\* parameters, post_apply, pre_expectations, expval once per expectation
\* in order, post_expectations, and the returned array holds the values of
\* expval in the order of the expectations.
C25_ExecuteOrder ==
    Executing =>
        /\ pc = "call" => trace = <<>>
        /\ IsPrefix(trace, FullTrace)
        /\ Unsupported =>
              /\ pc \in {"call", "error"}
              /\ Len(trace) <= 1
              /\ pc = "error" => (result.raised /\ result.error[1] = "DeviceError")
        /\ ~Unsupported => pc # "error"
        /\ pc = "done" =>
              /\ trace = FullTrace
              /\ Invocations(trace, "pre_apply") = 1
              /\ Len(result) = Len(call.expectation)
              /\ \A i \in 1..Len(result) :
                     result[i] = expval_value(call.expectation[i].name,
                                              call.expectation[i].wires,
                                              call.expectation[i].parameters)

\* A finished execution of two operations and two different expectations.
C25_Witness ==
    /\ Executing
    /\ pc = "done"
    /\ Len(call.queue) = 2
    /\ call.queue[1] # call.queue[2]
    /\ Len(call.expectation) = 2
    /\ result[1] # result[2]
    /\ Invocations(trace, "apply") = 2
    /\ Invocations(trace, "expval") = 2

\* C30: apply is only ever invoked with a name in the device's operations
\* and expval only with a name in its expectations; a call whose queue
\* holds a name that is not an operation of the device, or whose
\* expectations hold a name that is not an expectation of the device, is
\* rejected by check_validity with DeviceError.
C30_KindsChecked ==
    Executing =>
        /\ \A i \in 1..Len(trace) :
              /\ trace[i].m = "apply" => trace[i].name \in call.self.operations
              /\ trace[i].m = "expval" => trace[i].name \in call.self.expectations
        /\ ((\/ \E i \in 1..Len(call.queue) : call.queue[i].name \notin call.self.operations
             \/ \E i \in 1..Len(call.expectation) :
                    call.expectation[i].name \notin call.self.expectations)
            /\ pc # "call") => pc = "error"

(***************************************************************************)
(* The unitary embedding engine, build_unitary (get_unitary_matrix).       *)
(* A matrix of permutation gates is the sequence of its columns' rows:     *)
(* m[j + 1] is the number of the basis vector that basis vector j is sent  *)
(* to.  The first wire of a wire order is the most significant bit.        *)
(***************************************************************************)
MaxEmbedded == 2    \* most operators of an embedded tape

\* np.eye(n)
eye(n) == [j \in 1..n |-> j - 1]

\* A @ B: B acts first.
dot(A, B) == [j \in 1..Len(B) |-> A[B[j] + 1]]

\* np.kron(A, B)
kron(A, B) ==
    [j \in 1..(Len(A) * Len(B)) |->
        A[((j - 1) \div Len(B)) + 1] * Len(B) + B[((j - 1) % Len(B)) + 1]]

\* The accumulator multiplied from the right.
right_multiply(accumulator, embedded) == dot(accumulator, embedded)

\* Step (4): the accumulator is left-multiplied by the embedded matrix.
left_multiply(accumulator, embedded) == dot(embedded, accumulator)

\* Wires.index: the 1-based position of wire w in a wire order.
position(wire_order, w) == CHOOSE k \in 1..Len(wire_order) : wire_order[k] = w

\* The wires of w1 that are not in w2, in the order of w1.
RECURSIVE Wires_difference(_, _)
Wires_difference(w1, w2) ==
    IF w1 = <<>> THEN <<>>
    ELSE (IF Head(w1) \in Range(w2) THEN <<>> ELSE <<Head(w1)>>)
         \o Wires_difference(Tail(w1), w2)

\* No reordering of the axes.
basis_permutation_none(from_order, to_order) == eye(pow2(Len(from_order)))

\* The basis permutation between two orders of the same wires: basis vector
\* j of from_order is basis vector P[j + 1] of to_order.
basis_permutation(from_order, to_order) ==
    LET n == Len(from_order)
        RECURSIVE value(_, _)
        value(j, p) ==
            IF p = 0 THEN 0
            ELSE 2 * value(j, p - 1) + bit_of(j, position(from_order, to_order[p]), n)
    IN  [j \in 1..pow2(n) |-> value(j - 1, n)]

\* Step (1): the local matrix of an operator.
local_matrix(op) ==
    IF op.name = "MultiControlledX" THEN MultiControlledX_matrix(op) ELSE matrix(op)

\* An embedding that takes the operator's wires in the order in which the
\* wire order lists them.
embed_in_wire_order(op, wire_order) ==
    LET rest == Wires_difference(wire_order, op.wires)
        induced == Wires_difference(wire_order, rest)
        expanded_order == induced \o rest
        K == kron(local_matrix(op), eye(pow2(Len(rest))))
    IN  dot(basis_permutation(expanded_order, wire_order),
            dot(K, basis_permutation(wire_order, expanded_order)))

\* Steps (2) and (3): the local matrix tensored with the identity on the
\* wires the operator does not act on, its axes then permuted from
\* (operator's wires in argument order, other wires) to the wire order.
embed(op, wire_order) ==
    LET rest == Wires_difference(wire_order, op.wires)
        expanded_order == op.wires \o rest
        K == kron(local_matrix(op), eye(pow2(Len(rest))))
    IN  dot(basis_permutation(expanded_order, wire_order),
            dot(K, basis_permutation(wire_order, expanded_order)))

\* tape.wires: the wires of the operations in order of first appearance.
RECURSIVE tape_wires(_)
tape_wires(operations) ==
    IF operations = <<>> THEN <<>>
    ELSE Wires_add(tape_wires(SubSeq(operations, 1, Len(operations) - 1)),
                   operations[Len(operations)].wires)

NoWireOrder == [given |-> FALSE, wires |-> <<>>]
WireOrder(w) == [given |-> TRUE, wires |-> w]

\* A reduction that takes the wire order of a function from what it records.
make_tape_inferring(source, wire_order) ==
    IF source.kind \in {"tape", "function"} /\ source.operations # <<>>
    THEN {[raised |-> FALSE, operations |-> source.operations,
           wire_order |-> IF wire_order.given THEN wire_order.wires
                          ELSE tape_wires(source.operations)]}
    ELSE {Raised("Input is not a tape, QNode, or quantum function")}

\* What invoking the returned function does before the first embedding: the
\* possible outcomes, each an error or the operations and the wire order.
\* A function that is given no wire order and records nothing is malformed
\* in two ways and may fail with either error.
make_tape(source, wire_order) ==
    LET ready == [raised |-> FALSE, operations |-> source.operations,
                  wire_order |-> IF wire_order.given THEN wire_order.wires
                                 ELSE tape_wires(source.operations)]
        unspecified == Raised("Wire ordering list not specified")
        no_operation == Raised("Function contains no quantum operation")
    IN  IF source.kind = "tape"
        THEN IF ~wire_order.given /\ source.operations = <<>>
             THEN {Raised("MissingWireOrderError")}
             ELSE {ready}
        ELSE IF source.kind = "function"
        THEN IF ~wire_order.given
             THEN {unspecified} \cup (IF source.operations = <<>> THEN {no_operation} ELSE {})
             ELSE IF source.operations = <<>> THEN {no_operation}
             ELSE {ready}
        ELSE {Raised("Input is not a tape, QNode, or quantum function")}

IntOrders == { <<0, 1>>, <<1, 0>>, <<0, 1, 2>>, <<2, 1, 0>>, <<1, 2, 0>> }
IntGates ==
    { PauliX(0), PauliX(1), PauliX(2), CNOT(0, 1), CNOT(1, 0), CNOT(1, 2), CNOT(0, 2),
      CNOT(2, 0), SWAP(0, 2), Toffoli(0, 1, 2), Toffoli(2, 0, 1),
      MultiControlledX(<<2, 0>>, 1, <<"1", "0">>) }
NameOrders == { <<"a", "b", "c">>, <<"c", "a", "b">> }
NameGates ==
    { PauliX("b"), CNOT("a", "c"), CNOT("c", "b"), Toffoli("a", "b", "c"),
      Toffoli("c", "a", "b") }

UnitaryStart(c) ==
    /\ pass = "build_unitary"
    /\ tape = Tape(<<>>, <<>>)
    /\ tape0 = Tape(<<>>, <<>>)
    /\ list_copy = <<>>
    /\ queue = <<>>
    /\ pc = "call"
    /\ run = 1
    /\ cancelled = {}
    /\ kept = {}
    /\ call = c
    /\ result = <<>>
    /\ history = <<>>
    /\ trace = <<>>

InitUnitary ==
    \/ \E k \in {"tape", "function"} :
       \E ops \in SeqsUpTo(IntGates, MaxEmbedded) :
       \E w \in {NoWireOrder} \cup {WireOrder(o) : o \in IntOrders} :
          UnitaryStart([fn |-> "build_unitary",
                        source |-> [kind |-> k, operations |-> ops], wire_order |-> w])
    \/ \E k \in {"tape", "function"} :
       \E ops \in SeqsUpTo(NameGates, MaxEmbedded) :
       \E w \in {NoWireOrder} \cup {WireOrder(o) : o \in NameOrders} :
          UnitaryStart([fn |-> "build_unitary",
                        source |-> [kind |-> k, operations |-> ops], wire_order |-> w])
    \/ \E w \in {NoWireOrder, WireOrder(<<0>>)} :
          UnitaryStart([fn |-> "build_unitary",
                        source |-> [kind |-> "operator", operations |-> <<PauliX(0)>>],
                        wire_order |-> w])

UnitaryUnchanged == UNCHANGED <<pass, tape0, queue, run, cancelled, kept, call, history, trace>>

\* build_unitary(source, wire_order): the function that computes the matrix
\* is returned; nothing is looked at yet.
build_unitary_call ==
    /\ pc = "call"
    /\ pass = "build_unitary"
    /\ pc' = "returned"
    /\ result' = [raised |-> FALSE, kind |-> "callable"]
    /\ UNCHANGED <<tape, list_copy>>
    /\ UnitaryUnchanged

\* The returned function is invoked: the source is reduced to a tape, the
\* wire order is fixed, and the accumulator becomes the identity.
matrix_function_call ==
    /\ pc = "returned"
    /\ \E r \in make_tape(call.source, call.wire_order) :
          IF r.raised
          THEN /\ pc' = "error"
               /\ result' = r
               /\ UNCHANGED <<tape, list_copy>>
          ELSE /\ pc' = "embedding"
               /\ tape' = Tape(r.operations, <<>>)
               /\ list_copy' = [i \in 1..Len(r.operations) |-> i]
               /\ result' = [raised |-> FALSE, kind |-> "accumulator",
                             wire_order |-> r.wire_order,
                             matrix |-> eye(pow2(Len(r.wire_order)))]
    /\ UnitaryUnchanged

\* One operator of the tape is embedded and multiplied onto the accumulator;
\* an operator on a wire that the wire order does not hold is an error.
embed_step ==
    /\ pc = "embedding"
    /\ Len(list_copy) > 0
    /\ LET op == tape.operations[list_copy[1]] IN
         IF Range(op.wires) \subseteq Range(result.wire_order)
         THEN /\ result' = [result EXCEPT
                               !.matrix = left_multiply(@, embed(op, result.wire_order))]
              /\ list_copy' = Tail(list_copy)
              /\ pc' = pc
         ELSE /\ result' = Raised("MissingWireOrderError")
              /\ pc' = "error"
              /\ UNCHANGED list_copy
    /\ UNCHANGED tape
    /\ UnitaryUnchanged

\* Every operator is embedded: the accumulator is returned.
return_matrix ==
    /\ pc = "embedding"
    /\ Len(list_copy) = 0
    /\ pc' = "done"
    /\ result' = [result EXCEPT !.kind = "matrix"]
    /\ UNCHANGED <<tape, list_copy>>
    /\ UnitaryUnchanged

NextUnitary ==
    \/ build_unitary_call
    \/ matrix_function_call
    \/ embed_step
    \/ return_matrix

SpecUnitary == InitUnitary /\ [][NextUnitary]_vars

(***************************************************************************)
(* Properties of build_unitary.                                            *)
(***************************************************************************)
\* The matrix function returned a matrix.
Built == pass = "build_unitary" /\ pc = "done"

\* The basis state numbered j in the wire order of the result.
Decode(j) ==
    [w \in Range(result.wire_order) |->
        bit_of(j, position(result.wire_order, w), Len(result.wire_order))]

\* C21: the matrix built for a single operator leaves, on every basis
\* state, the bit of every position whose wire the operator does not act on
\* as it was; for a single-wire gate on the wire at position k of n it is
\* identity (x) ... (x) gate (x) ... (x) identity with the gate at position k,
\* the first position being the most significant; and a CNOT whose control
\* and target are the second and third of three wires, as CNOT(wires=[1,2])
\* in wire order [0,1,2], gives identity (x) CNOT.
C21_SingleOperatorEmbedding ==
    (Built /\ Len(tape.operations) = 1) =>
        LET op == tape.operations[1]
            order == result.wire_order
            n == Len(order)
            M == result.matrix
        IN  /\ Len(M) = pow2(n)
            /\ \A j \in 0..(pow2(n) - 1) : \A p \in 1..n :
                   order[p] \notin Range(op.wires) => bit_of(M[j + 1], p, n) = bit_of(j, p, n)
            /\ Len(op.wires) = 1 =>
                  LET k == position(order, op.wires[1]) IN
                  /\ M = kron(kron(eye(pow2(k - 1)), local_matrix(op)), eye(pow2(n - k)))
                  /\ op.name = "PauliX" =>
                        \A j \in 0..(pow2(n) - 1) :
                            M[j + 1] = IF bit_of(j, k, n) = 0 THEN j + pow2(n - k)
                                       ELSE j - pow2(n - k)
            /\ (/\ op.name = "CNOT"
                /\ n = 3
                /\ position(order, op.wires[1]) = 2
                /\ position(order, op.wires[2]) = 3)
               => M = <<0, 1, 3, 2, 4, 5, 7, 6>>

\* The matrix of a tape holding one PauliX on the middle wire of three.
C21_Witness ==
    /\ Built
    /\ Len(tape.operations) = 1
    /\ tape.operations[1].name = "PauliX"
    /\ Len(result.wire_order) = 3
    /\ position(result.wire_order, tape.operations[1].wires[1]) = 2
    /\ result.matrix = <<2, 3, 0, 1, 6, 7, 4, 5>>

\* E(om) ... E(o2) E(o1) for the operations o1, ..., om.
RECURSIVE EmbeddedProduct(_, _)
EmbeddedProduct(operations, wire_order) ==
    IF operations = <<>> THEN eye(pow2(Len(wire_order)))
    ELSE dot(embed(operations[Len(operations)], wire_order),
             EmbeddedProduct(SubSeq(operations, 1, Len(operations) - 1), wire_order))

\* C22: the matrix built for the operations o1, ..., om is
\* E(om) ... E(o2) E(o1), the first-applied operator rightmost: it sends
\* every basis state to the state reached by applying o1, then o2, ...,
\* then om to it.
C22_TapeOrderComposition ==
    Built =>
        /\ result.matrix = EmbeddedProduct(tape.operations, result.wire_order)
        /\ \A j \in 0..(Len(result.matrix) - 1) :
               Decode(result.matrix[j + 1]) = apply_all(tape.operations, Decode(j))

\* Two operators that do not commute.
C22_Witness ==
    /\ Built
    /\ Len(tape.operations) = 2
    /\ dot(embed(tape.operations[1], result.wire_order),
           embed(tape.operations[2], result.wire_order))
         # dot(embed(tape.operations[2], result.wire_order),
               embed(tape.operations[1], result.wire_order))

\* C23: for every wire order, the matrix built for a single CNOT or Toffoli
\* flips the bit at the position of the gate's last wire exactly when the
\* bits at the positions of its other wires (the controls, by argument
\* order) are all 1, and leaves every other position as it was.
C23_RolesByArgumentOrder ==
    (Built /\ Len(tape.operations) = 1 /\ tape.operations[1].name \in {"CNOT", "Toffoli"}) =>
        LET op == tape.operations[1]
            order == result.wire_order
            n == Len(order)
            controls == Len(op.wires) - 1
            t == position(order, op.wires[controls + 1])
        IN  \A j \in 0..(pow2(n) - 1) :
                LET fires == \A c \in 1..controls :
                                 bit_of(j, position(order, op.wires[c]), n) = 1
                IN  \A p \in 1..n :
                        bit_of(result.matrix[j + 1], p, n) =
                            IF p = t /\ fires THEN 1 - bit_of(j, p, n) ELSE bit_of(j, p, n)

\* A Toffoli whose first control comes after its target in the wire order
\* and a CNOT whose wires are not neighbours are covered; this is the Toffoli.
C23_Witness ==
    /\ Built
    /\ Len(tape.operations) = 1
    /\ tape.operations[1].name = "Toffoli"
    /\ position(result.wire_order, tape.operations[1].wires[1])
         > position(result.wire_order, tape.operations[1].wires[3])
    /\ position(result.wire_order, tape.operations[1].wires[2])
         < position(result.wire_order, tape.operations[1].wires[3])

\* The call is malformed: the source is no tape and no function, or it is a
\* function that is given no wire order or records no operation.
Malformed ==
    \/ call.source.kind = "operator"
    \/ /\ call.source.kind = "function"
       /\ (~call.wire_order.given \/ call.source.operations = <<>>)

\* The error a malformed call ends with is the one of its kind.
RightError ==
    /\ result.raised
    /\ call.source.kind = "operator"
          => result.error = "Input is not a tape, QNode, or quantum function"
    /\ (call.source.kind = "function" /\ call.source.operations # <<>>)
          => result.error = "Wire ordering list not specified"
    /\ (call.source.kind = "function" /\ call.wire_order.given)
          => result.error = "Function contains no quantum operation"
    /\ call.source.kind = "function"
          => result.error \in {"Wire ordering list not specified",
                               "Function contains no quantum operation"}

\* C24 as stated: a malformed call of build_unitary returns nothing: it ends
\* in the error of its kind at the call of build_unitary itself.
C24_RaisedByBuildUnitary ==
    (pass = "build_unitary" /\ Malformed) =>
        /\ pc \in {"call", "error"}
        /\ pc = "error" => RightError

\* C24, amended: a malformed call of build_unitary returns the matrix
\* function without an error; invoking that function raises the error of
\* the kind (no wire order for a recording function, unsupported source,
\* function without a quantum operation) before any operator is embedded,
\* so no matrix and no partial accumulator is ever produced.
C24_RaisedOnInvocation ==
    (pass = "build_unitary" /\ Malformed) =>
        /\ pc \in {"call", "returned", "error"}
        /\ pc = "returned" => (~result.raised /\ result.kind = "callable")
        /\ pc = "error" => RightError
        /\ tape.operations = <<>>
        /\ list_copy = <<>>

\* A function that records operations, given no wire order, has been
\* invoked and has raised.
C24_Witness ==
    /\ pass = "build_unitary"
    /\ pc = "error"
    /\ call.source.kind = "function"
    /\ call.source.operations # <<>>
    /\ ~call.wire_order.given
    /\ result.raised
    /\ result.error = "Wire ordering list not specified"

=============================================================================
